---- MODULE Spec2Model ----
(***************************************************************************)
(* State-machine model of the paper-extraction and enrichment pipeline of  *)
(* the Scholar Inbox bot: ScholarInboxScraper (src/src/scraper.py) and the *)
(* metadata fetcher ArxivClient (src/src/arxiv_client.py).                 *)
(*                                                                         *)
(* Python values are represented as follows.                               *)
(*   Optional[str]   a string, with None standing for Python's None        *)
(*   list            a sequence                                            *)
(*   dict            a function whose DOMAIN is the set of keys present    *)
(*   Optional[dict]  a dict, with NotFound standing for None               *)
(*   Optional[Paper] a Paper record, with NoPaper standing for None        *)
(*   a raised exception is the value Raised                                *)
(***************************************************************************)
EXTENDS Integers, Sequences, FiniteSets, TLC

VARIABLES
    pc,         \* position of scrape_papers: idle, goto, extract, assemble, returned, raised
    error,      \* where the exception that left scrape_papers came from, "none" if none
    cap,        \* the max_papers argument of the running scrape_papers call
    buttons,    \* the page: share buttons in document order (allShareButtons)
    bi,         \* index of the next de-duplicated share button the export loop handles
    allPapers,  \* raw records pushed so far by the export loop (allPapers)
    papers,     \* the raw records after the cap (papers, scraper.py:77-80)
    pi,         \* index of the next raw record the assembly loop handles
    result_papers, \* Papers appended so far (result_papers)
    resultBtn,  \* per Paper of result_papers, the index of its share button
    cache,      \* self._arxiv_metadata_cache
    lastAsm,    \* observation of the most recent _extract_paper_full_info call
    lastReq,    \* observation of the most recent _get_arxiv_metadata call
    lastFetch,  \* observation of the most recent direct call of the ArxivClient
    firstReq,   \* per id: result of the first _get_arxiv_metadata call, NotAsked before
    firstRec,   \* per id: the first record any _get_arxiv_metadata call returned
    netCalls,   \* per id: number of round trips to the metadata service
    failed,     \* indices (into buttons) of papers whose assembly raised
    direct,     \* number of direct _extract_paper_full_info calls made so far
    relPc,      \* where the relevance locator run stands: idle, located, assembled
    relRun,     \* observation of the most recent run of the relevance forEach body
    relPaper,   \* the raw record the locator worked on, then the Paper built from it
    figRun,     \* observation of the most recent run of a teaser figure extractor
    figFiles,   \* the files of cache_dir the figure extractor wrote
    runPc,      \* where the check_and_post_papers run stands
    date_range, \* its date_range argument
    config,     \* the filter and sorting settings of the bot
    di,         \* position, in date_range.get_dates(), of the date being handled
    install_attempted, \* _launch_browser's local flag
    launches,   \* launch attempts made by the running _launch_browser call
    installs,   \* runtime installs made by the running _launch_browser call
    launchErr,  \* what the latest launch attempt or install of that call raised
    openBrowsers, \* browsers launched and not yet closed
    contextOpen, \* whether a browser context is open
    scrapeOut,  \* what the running scrape_papers call is about to hand back
    scrapeLog,  \* per finished scrape_papers call: its page and what it handed back
    all_papers, \* the Papers collected over the dates handled so far
    runPapers,  \* the workflow's papers list (after scraping, filtering, sorting)
    cacheFiles, \* the files of cache_dir
    downloaded, \* the files the scrapes of this run wrote
    unlinkFailed, \* the files whose deletion failed
    cleanups,   \* cleanup_images calls made
    lastCleanup, \* observation of the most recent cleanup_images call
    postPc,     \* where the process loop of the workflow stands: idle, llm, post, returned, raised
    emitted,    \* the Papers as the scraper emitted them
    procCfg,    \* the settings the process loop and the Slack client read
    procPapers, \* the workflow's papers list while it is processed
    pidx,       \* index of the paper the process loop handles
    steps,      \* per paper handled: how its LLM step ended, whether it was posted
    lastPost,   \* observation of the most recent post_paper call
    pgPc,       \* where the export script stands: idle, export, relevance, done
    pgCards,    \* the page the script runs on: its paper cards, top to bottom
    pgi,        \* index of the next de-duplicated share button of the script's loop
    pgOpen,     \* the dialogs that are open, the topmost last
    pgPapers,   \* the script's allPapers / validPapers
    pgLog,      \* per pass of the script's loop: what it found open and what it read
    pri         \* index of the next paper the script's forEach handles

scrapeVars == <<pc, error, cap, buttons, bi, allPapers, papers, pi, result_papers, resultBtn,
                cache, lastAsm, lastReq, lastFetch, firstReq, firstRec, netCalls, failed,
                direct>>

relVars == <<relPc, relRun, relPaper>>

\* what a scrape_papers run of the first part of the model leaves alone
figVars == <<figRun, figFiles>>

runVars == <<runPc, date_range, config, di, install_attempted, launches, installs,
             launchErr,
             openBrowsers, contextOpen, scrapeOut, scrapeLog, all_papers, runPapers,
             cacheFiles, downloaded, unlinkFailed, cleanups, lastCleanup>>

postVars == <<postPc, emitted, procCfg, procPapers, pidx, steps, lastPost>>

pageVars == <<pgPc, pgCards, pgi, pgOpen, pgPapers, pgLog, pri>>

sideVars == <<relVars, figVars, runVars, postVars, pageVars>>

vars == <<scrapeVars, sideVars>>

-----------------------------------------------------------------------------
(* Bounds of the model *)

MaxButtons == 2     \* share buttons on one page
MaxDirect == 1      \* direct calls of _extract_paper_full_info on one scraper
MaxCap == 1         \* largest max_papers argument tried

-----------------------------------------------------------------------------
(* Python values *)

None == "<None>"
NotFound == [notfound |-> TRUE]
NoPaper == [nopaper |-> TRUE]
Raised == [raised |-> TRUE]
NotAsked == [notasked |-> TRUE]
NoDate == <<>>
EmptyDict == [k \in {} |-> None]

\* truthiness of an Optional[str]
Truthy(v) == v # None /\ v # ""

\* a or b, on Optional[str]
Or(a, b) == IF Truthy(a) THEN a ELSE b

\* a or b, on lists
OrList(a, b) == IF a # <<>> THEN a ELSE b

\* d.get(k) and d.get(k, default)
Get(d, k) == IF k \in DOMAIN d THEN d[k] ELSE None
GetOr(d, k, default) == IF k \in DOMAIN d THEN d[k] ELSE default

\* d with d[k] = v
Put(d, k, v) == [x \in (DOMAIN d) \cup {k} |-> IF x = k THEN v ELSE d[x]]

\* str.strip() on the texts of the model
strip(s) ==
    CASE s = " API Title\n" -> "API Title"
      [] s = " API Abstract " -> "API Abstract"
      [] s = " A. One" -> "A. One"
      [] s = " B. Two " -> "B. Two"
      [] s = " " -> ""
      [] OTHER -> s

-----------------------------------------------------------------------------
(* ArxivClient: the metadata fetcher *)

ArxivIds == {"1234.5678", "2401.00001"}

Pad2(n) == IF n < 10 THEN "0" \o ToString(n) ELSE ToString(n)

\* datetime.strftime('%Y-%m-%d'); a date is <<year, month, day>>
strftime(d) == ToString(d[1]) \o "-" \o Pad2(d[2]) \o "-" \o Pad2(d[3])

\* arxiv.Result objects the metadata service may answer with for an id
ResFull(id) ==
    [title |-> " API Title\n", authors |-> <<[name |-> "API Author"]>>,
     summary |-> " API Abstract ", published |-> <<2025, 1, 1>>,
     updated |-> <<2025, 1, 5>>, pdf_url |-> "http://arxiv.org/pdf/" \o id \o "v1",
     entry_id |-> "http://arxiv.org/abs/" \o id \o "v1",
     categories |-> <<"cs.AI">>, doi |-> "10.1000/xyz", short_id |-> id]

ResBare(id) ==
    [title |-> "", authors |-> <<>>, summary |-> None, published |-> NoDate,
     updated |-> NoDate, pdf_url |-> None, entry_id |-> None,
     categories |-> <<>>, doi |-> None, short_id |-> id]

ResMixedA(id) ==
    [title |-> " API Title\n", authors |-> <<>>, summary |-> None,
     published |-> <<2025, 1, 1>>, updated |-> NoDate, pdf_url |-> None,
     entry_id |-> None, categories |-> <<"cs.AI">>, doi |-> None, short_id |-> id]

ResMixedB(id) ==
    [title |-> "", authors |-> <<[name |-> "API Author"]>>, summary |-> " API Abstract ",
     published |-> NoDate, updated |-> <<2025, 1, 5>>,
     pdf_url |-> "http://arxiv.org/pdf/" \o id \o "v1",
     entry_id |-> "http://arxiv.org/abs/" \o id \o "v1",
     categories |-> <<>>, doi |-> "10.1000/xyz", short_id |-> id]

ArxivResults(id) == {ResFull(id), ResBare(id), ResMixedA(id), ResMixedB(id)}

\* What one round trip to the metadata service does: it answers with a
\* Result, answers with no match, fails in transport, or answers with
\* something _build_metadata cannot digest.
Outcomes(id) ==
    [kind : {"found"}, res : ArxivResults(id)]
        \cup {[kind |-> "nomatch"], [kind |-> "transport"], [kind |-> "parse"]}

_build_metadata(paper) ==
    LET metadata ==
            [title |-> IF Truthy(paper.title) THEN strip(paper.title) ELSE None,
             authors |-> [i \in 1..Len(paper.authors) |-> paper.authors[i].name],
             abstract |-> IF Truthy(paper.summary) THEN strip(paper.summary) ELSE None,
             published |-> IF paper.published # NoDate
                           THEN strftime(paper.published) ELSE None,
             updated |-> IF paper.updated # NoDate
                         THEN strftime(paper.updated) ELSE None,
             pdf_url |-> paper.pdf_url,
             entry_id |-> paper.entry_id,
             categories |-> paper.categories,
             doi |-> paper.doi]
        with_abs == IF Truthy(paper.entry_id)
                    THEN Put(metadata, "abs_url", paper.entry_id)
                    ELSE metadata
    IN  Put(with_abs, "arxiv_id", paper.short_id)

\* mutant: transport and parse failures escape the try/except
Mut_fetch_raising(outcome) ==
    CASE outcome.kind = "found" -> _build_metadata(outcome.res)
      [] outcome.kind = "nomatch" -> NotFound
      [] OTHER -> Raised

\* The whole body is one try/except Exception: every failure is NotFound.
_fetch_paper_metadata_internal(outcome) ==
    CASE outcome.kind = "found" -> _build_metadata(outcome.res)
      [] outcome.kind = "nomatch" -> NotFound
      [] outcome.kind = "transport" -> NotFound
      [] outcome.kind = "parse" -> NotFound

fetch_paper_metadata_sync(outcome) == _fetch_paper_metadata_internal(outcome)

fetch_paper_metadata(outcome) == _fetch_paper_metadata_internal(outcome)

\* if metadata: (None and the empty dict are falsy)
TruthyDict(m) == m # NotFound /\ m # Raised /\ DOMAIN m # {}

\* mutant: the cache is never consulted nor filled
Mut_get_never_caching(c, arxiv_id, outcome) ==
    [result |-> fetch_paper_metadata_sync(outcome), cache |-> c, net |-> TRUE]

\* Returns the value, the cache afterwards and whether the service was asked.
_get_arxiv_metadata(c, arxiv_id, outcome) ==
    IF arxiv_id \in DOMAIN c
    THEN [result |-> c[arxiv_id], cache |-> c, net |-> FALSE]
    ELSE LET metadata == fetch_paper_metadata_sync(outcome)
         IN  [result |-> metadata,
              cache |-> IF TruthyDict(metadata) THEN Put(c, arxiv_id, metadata) ELSE c,
              net |-> TRUE]

-----------------------------------------------------------------------------
(* ScholarInboxScraper: the paper assembler *)

NoRelevance == [norelevance |-> TRUE]

\* The text of an author string is the sequence of its comma-separated
\* pieces; the empty string is the empty sequence.
_parse_authors(authors_text) ==
    IF authors_text = <<>>
    THEN <<>>
    ELSE LET stripped == [i \in 1..Len(authors_text) |-> strip(authors_text[i])]
         IN  SelectSeq(stripped, LAMBDA a : a # "")

abs_url_of(arxiv_id) == "https://arxiv.org/abs/" \o arxiv_id
html_url_of(arxiv_id) == "https://arxiv.org/html/" \o arxiv_id

\* if is_arxiv and arxiv_id:
FetchTriggered(paper_data) ==
    GetOr(paper_data, "isArxiv", FALSE) /\ Truthy(Get(paper_data, "arxivId"))

\* mutant: the scraped value wins over the fetched one
Mut_prefer_scraped(fetched, scraped) == Or(scraped, fetched)

\* arxiv_metadata.get(k) or <scraped value>, on Optional[str]
PreferFetched(fetched, scraped) == Or(fetched, scraped)

\* arxiv_metadata.get(k) or <scraped value>, on lists
PreferFetchedList(fetched, scraped) == OrList(fetched, scraped)

\* scraper.py:453-461, the merge of fetched metadata into the raw record's
MergeMetadata(metadata, arxiv_metadata) ==
    [k \in (DOMAIN metadata) \cup
           {"categories", "submitted_date", "updated_date", "pdf_url", "abs_url", "doi"} |->
        CASE k = "categories" ->
                PreferFetchedList(GetOr(arxiv_metadata, "categories", <<>>),
                                  GetOr(metadata, "categories", <<>>))
          [] k = "submitted_date" ->
                PreferFetched(Get(arxiv_metadata, "published"), Get(metadata, "submitted_date"))
          [] k = "updated_date" ->
                PreferFetched(Get(arxiv_metadata, "updated"), Get(metadata, "updated_date"))
          [] k = "pdf_url" ->
                PreferFetched(Get(arxiv_metadata, "pdf_url"), Get(metadata, "pdf_url"))
          [] k = "abs_url" ->
                PreferFetched(Get(arxiv_metadata, "abs_url"), Get(metadata, "abs_url"))
          [] k = "doi" ->
                PreferFetched(Get(arxiv_metadata, "doi"), Get(metadata, "doi"))
          [] OTHER -> metadata[k]]

\* scraper.py:464-470, the venue of a paper that is not an arXiv paper
WithConference(metadata, paper_data) ==
    IF Truthy(Get(paper_data, "booktitle"))
    THEN Put(metadata, "conference", paper_data["booktitle"])
    ELSE IF Truthy(Get(paper_data, "journal"))
         THEN Put(metadata, "conference", paper_data["journal"])
         ELSE metadata

\* scraper.py:472-480
RelevanceOf(metadata) ==
    IF "relevance" \in DOMAIN metadata /\ DOMAIN metadata["relevance"] # {}
    THEN [relevance_score |-> GetOr(metadata["relevance"], "relevance_score", 0),
          thumbs_up |-> GetOr(metadata["relevance"], "thumbs_up", 0),
          read_by |-> GetOr(metadata["relevance"], "read_by", 0),
          category |-> ""]
    ELSE NoRelevance

\* mutant: the generic page heuristic is never consulted
Mut_abstract_skips_generic(is_arxiv, arxiv_id, arxiv_metadata, heur) ==
    LET a0 == IF is_arxiv /\ Truthy(arxiv_id) THEN heur ELSE ""
    IN  IF TruthyDict(arxiv_metadata) /\ Truthy(Get(arxiv_metadata, "abstract"))
        THEN arxiv_metadata["abstract"]
        ELSE a0

\* scraper.py:482-490; heur is what the page heuristic that is asked returns
AbstractOf(is_arxiv, arxiv_id, arxiv_metadata, heur) ==
    LET a0 == IF is_arxiv /\ Truthy(arxiv_id) THEN heur ELSE ""
    IN  IF TruthyDict(arxiv_metadata) /\ Truthy(Get(arxiv_metadata, "abstract"))
        THEN arxiv_metadata["abstract"]
        ELSE IF ~is_arxiv THEN heur ELSE a0

\* except Exception: log and return None
OnAssemblyError(paper_data) == NoPaper

\* The assembler.  env.outcome is what the metadata service does if asked,
\* env.heur what the page's abstract heuristic returns if asked, env.exc
\* whether building the Paper raises.  The result holds the Paper (or
\* NoPaper), the cache afterwards and what the call did on the way.
_extract_paper_full_info(c, paper_data, env) ==
    LET title0 == Get(paper_data, "title")
        authors_text == GetOr(paper_data, "authors", <<>>)
        arxiv_id == Get(paper_data, "arxivId")
        is_arxiv == GetOr(paper_data, "isArxiv", FALSE)
        paper_url == Get(paper_data, "paperUrl")
        authors0 == _parse_authors(authors_text)
        metadata0 == GetOr(paper_data, "metadata", EmptyDict)
        asked == FetchTriggered(paper_data)
        got == IF asked
               THEN _get_arxiv_metadata(c, arxiv_id, env.outcome)
               ELSE [result |-> NotFound, cache |-> c, net |-> FALSE]
        arxiv_metadata == got.result
        have == TruthyDict(arxiv_metadata)
        title == IF have THEN PreferFetched(Get(arxiv_metadata, "title"), title0) ELSE title0
        authors == IF have
                   THEN PreferFetchedList(GetOr(arxiv_metadata, "authors", <<>>), authors0)
                   ELSE authors0
        metadata1 == IF have THEN MergeMetadata(metadata0, arxiv_metadata) ELSE metadata0
        metadata == IF ~is_arxiv THEN WithConference(metadata1, paper_data) ELSE metadata1
        arxiv_url == IF asked THEN abs_url_of(arxiv_id)
                     ELSE IF ~is_arxiv THEN paper_url ELSE None
        arxiv_html_url == IF asked THEN html_url_of(arxiv_id) ELSE None
        paper ==
            [title |-> Or(title, ""),
             authors |-> authors,
             abstract |-> AbstractOf(is_arxiv, arxiv_id, arxiv_metadata, env.heur),
             arxiv_id |-> arxiv_id,
             arxiv_url |-> Or(Get(metadata, "abs_url"), arxiv_url),
             arxiv_html_url |-> arxiv_html_url,
             github_url |-> Get(metadata, "github_url"),
             conference |-> Get(metadata, "conference"),
             submitted_date |-> Get(metadata, "submitted_date"),
             categories |-> GetOr(metadata, "categories", <<>>),
             paper_relevance |-> RelevanceOf(metadata),
             teaser_figures |-> <<>>,
             translated_abstract |-> None,
             summaries |-> EmptyDict]
        heurAsked == (is_arxiv /\ Truthy(arxiv_id))
                     \/ (~(have /\ Truthy(Get(arxiv_metadata, "abstract"))) /\ ~is_arxiv)
    IN  [paper |-> IF arxiv_metadata = Raised \/ env.exc
                   THEN OnAssemblyError(paper_data)
                   ELSE paper,
         cache |-> got.cache,
         asked |-> asked,
         net |-> got.net,
         arxiv_metadata |-> arxiv_metadata,
         metadata |-> IF arxiv_metadata = Raised THEN metadata0 ELSE metadata,
         heurAsked |-> IF arxiv_metadata = Raised THEN FALSE ELSE heurAsked]

-----------------------------------------------------------------------------
(* The rendered page *)

\* A citation text is the sequence of its fields <<key, value>> in the
\* order they are written; the author value is an author string.
Authors2 == <<" A. One", " B. Two ">>

BibArxiv(id) ==
    [kind |-> "@article",
     fields |-> << <<"author", Authors2>>, <<"title", "Paper about X">>,
                   <<"journal", "arXiv">>, <<"volume", id>>, <<"year", "2025">> >>]

BibConf ==
    [kind |-> "@inproceedings",
     fields |-> << <<"author", Authors2>>, <<"title", "Paper about Y">>,
                   <<"booktitle", "NeurIPS">>, <<"year", "2024">> >>]

BibNoTitle ==
    [kind |-> "@article",
     fields |-> << <<"author", Authors2>>, <<"title", "">>,
                   <<"journal", "Nature">> >>]

BibNoAuthor ==
    [kind |-> "@article",
     fields |-> << <<"title", "Paper about Z">>, <<"journal", "arXiv">>,
                   <<"volume", "1234.5678">> >>]

NoBib == [kind |-> "", fields |-> <<>>]

\* What the page holds behind one share button: whether the citation
\* control shows up, the citation text its dialog shows, whether a step of
\* the export raises, and the href of the link whose text matches the title
\* (None when no link within ten ancestors matches).
Entry(ctl, bib, throws, link) ==
    [ctl |-> ctl, bib |-> bib, throws |-> throws, link |-> link]

Entries ==
    {Entry(TRUE, BibArxiv(id), FALSE, None) : id \in ArxivIds}
        \cup {Entry(TRUE, BibConf, FALSE, "https://openreview.net/forum?id=Y"),
              Entry(TRUE, BibConf, FALSE, None),
              Entry(FALSE, BibConf, FALSE, None),
              Entry(TRUE, NoBib, FALSE, None),
              Entry(TRUE, BibConf, TRUE, None),
              Entry(TRUE, BibNoTitle, FALSE, None),
              Entry(TRUE, BibNoAuthor, FALSE, None)}

\* vertical positions (getBoundingClientRect().y) a share button may have
Ys == {40, 60}

Buttons == [y : Ys, e : Entries]

\* the pages: up to MaxButtons share buttons, laid out top to bottom
Pages ==
    {p \in UNION {[1..n -> Buttons] : n \in 0..MaxButtons} :
        \A i, j \in DOMAIN p : i < j => p[i].y <= p[j].y}

\* max_papers: Optional[int]
NoCap == [given |-> FALSE, n |-> 0]
Caps == {NoCap} \cup [given : {TRUE}, n : 0..MaxCap]

-----------------------------------------------------------------------------
(* ScholarInboxScraper._extract_all_papers: the structured export *)

\* Math.round(rect.y / 100) * 100
RoundY(y) == ((y + 50) \div 100) * 100

\* scraper.py:144-157: the indices, in document order, of the buttons kept
\* after dropping those whose rounded position was seen before
RECURSIVE KeepFrom(_, _, _)
KeepFrom(btns, i, seen) ==
    IF i > Len(btns)
    THEN <<>>
    ELSE IF RoundY(btns[i].y) \in seen
         THEN KeepFrom(btns, i + 1, seen)
         ELSE <<i>> \o KeepFrom(btns, i + 1, seen \cup {RoundY(btns[i].y)})

shareButtons(btns) == KeepFrom(btns, 1, {})

\* bibtex.match(/key=\{([^}]+)\}/): the value of the leftmost field whose
\* text ends in key={...} with a non-empty value; "booktitle={" ends in
\* "title={".  Undefined (no match) is None, or <<>> for the author string.
KeyMatches(fieldKey, key) ==
    fieldKey = key \/ (key = "title" /\ fieldKey = "booktitle")

RECURSIVE MatchFrom(_, _, _, _)
MatchFrom(fields, key, i, undefined) ==
    IF i > Len(fields)
    THEN undefined
    ELSE IF KeyMatches(fields[i][1], key) /\ fields[i][2] # (IF key = "author" THEN <<>> ELSE "")
         THEN fields[i][2]
         ELSE MatchFrom(fields, key, i + 1, undefined)

Match(bib, key) == MatchFrom(bib.fields, key, 1, IF key = "author" THEN <<>> ELSE None)

\* scraper.py:213-238
Parse(bib) ==
    [authors |-> Match(bib, "author"),
     title |-> Match(bib, "title"),
     journal |-> Match(bib, "journal"),
     booktitle |-> Match(bib, "booktitle"),
     volume |-> Match(bib, "volume"),
     year |-> Match(bib, "year")]

\* mutant: a citation of the preprint server needs no volume
Mut_arxiv_by_journal_alone(parsed) == parsed.journal = "arXiv"

\* if (parsed.journal === 'arXiv' && parsed.volume)
IsArxivCitation(parsed) == parsed.journal = "arXiv" /\ Truthy(parsed.volume)

\* scraper.py:257-276: the href of the title-matching link, when the title
\* was parsed and such a link exists
TitleLink(parsed, e) == IF Truthy(parsed.title) THEN e.link ELSE None

\* mutant: a paper without title or without authors is pushed all the same
Mut_complete_always(parsed) == TRUE

\* if (!parsed.title || !parsed.authors) continue;
Complete(parsed) == Truthy(parsed.title) /\ parsed.authors # <<>>

\* scraper.py:299-310; btn is the index of the share button the record
\* comes from (it is no key of the real record and nothing reads it but
\* the properties below)
RawRecord(parsed, e, btn) ==
    [k \in {"title", "authors", "arxivId", "paperUrl", "isArxiv", "journal",
            "booktitle", "year", "bibtex", "metadata", "btn"} |->
        CASE k = "title" -> parsed.title
          [] k = "authors" -> parsed.authors
          [] k = "arxivId" -> IF IsArxivCitation(parsed) THEN parsed.volume ELSE None
          [] k = "paperUrl" -> IF IsArxivCitation(parsed)
                               THEN abs_url_of(parsed.volume)
                               ELSE TitleLink(parsed, e)
          [] k = "isArxiv" -> IsArxivCitation(parsed)
          [] k = "journal" -> parsed.journal
          [] k = "booktitle" -> parsed.booktitle
          [] k = "year" -> parsed.year
          [] k = "bibtex" -> e.bib
          [] k = "metadata" -> EmptyDict
          [] k = "btn" -> btn]

Pushed(records) == [raised |-> FALSE, push |-> records]

\* mutant: the exception leaves the loop and page.evaluate raises
Mut_export_error_escapes(e) == [raised |-> TRUE, push |-> <<>>]

\* catch (err): log, close the dialogs, go on with the next button
OnExportError(e) == Pushed(<<>>)

\* mutant: a paper whose link is not found is skipped
Mut_export_drops_unlinked(e, btn) ==
    IF e.throws THEN OnExportError(e)
    ELSE IF ~e.ctl THEN Pushed(<<>>)
    ELSE IF e.bib.kind \notin {"@inproceedings", "@article"} THEN Pushed(<<>>)
    ELSE LET parsed == Parse(e.bib)
         IN  IF ~Complete(parsed) THEN Pushed(<<>>)
             ELSE IF ~IsArxivCitation(parsed) /\ TitleLink(parsed, e) = None
                  THEN Pushed(<<>>)
                  ELSE Pushed(<<RawRecord(parsed, e, btn)>>)

\* scraper.py:163-327, one pass of the export loop: the records it pushes
\* (none or one), or the exception that leaves it
ExportOne(e, btn) ==
    IF e.throws THEN OnExportError(e)
    ELSE IF ~e.ctl THEN Pushed(<<>>)
    ELSE IF e.bib.kind \notin {"@inproceedings", "@article"} THEN Pushed(<<>>)
    ELSE LET parsed == Parse(e.bib)
         IN  IF ~Complete(parsed) THEN Pushed(<<>>)
             ELSE Pushed(<<RawRecord(parsed, e, btn)>>)

-----------------------------------------------------------------------------
(* ScholarInboxScraper.scrape_papers *)

\* if max_papers: papers = papers[:max_papers]
ApplyMaxPapers(ps, c) ==
    IF c.given /\ c.n # 0
    THEN SubSeq(ps, 1, IF c.n < Len(ps) THEN c.n ELSE Len(ps))
    ELSE ps

\* mutant: the new Paper is put in front
Mut_prepend(seq, x) == <<x>> \o seq

\* result_papers.append(paper)
append(seq, x) == Append(seq, x)

NoCall == [nocall |-> TRUE]

\* Raw records handed to _extract_paper_full_info directly: the two of
\* tests/test_scraper_metadata.py, and two of the shape the export builds,
\* the first carrying scraped values for the fields metadata also has.
RecTestEnrich ==
    [k \in {"titleLink", "authorsLink", "arxivId", "href", "metadata"} |->
        CASE k = "titleLink" -> "Scraped Title"
          [] k = "authorsLink" -> "Scraped Author"
          [] k = "arxivId" -> "1234.5678"
          [] k = "href" -> "https://scholar-inbox.com/paper/1234"
          [] k = "metadata" -> EmptyDict]

RecTestSkip ==
    [k \in {"titleLink", "authorsLink", "href", "metadata"} |->
        CASE k = "titleLink" -> "Non Arxiv Paper"
          [] k = "authorsLink" -> "Author One"
          [] k = "href" -> "https://scholar-inbox.com/paper/non-arxiv"
          [] k = "metadata" -> EmptyDict]

ScrapedMetadata ==
    [k \in {"categories", "submitted_date", "abs_url", "doi"} |->
        CASE k = "categories" -> <<"cs.LG">>
          [] k = "submitted_date" -> "2024-12-31"
          [] k = "abs_url" -> "https://scholar-inbox.com/paper/1234"
          [] k = "doi" -> "10.9999/scraped"]

RecArxivScraped ==
    [k \in {"title", "authors", "arxivId", "paperUrl", "isArxiv", "journal",
            "booktitle", "year", "metadata"} |->
        CASE k = "title" -> "Scraped Title"
          [] k = "authors" -> <<"Scraped Author">>
          [] k = "arxivId" -> "1234.5678"
          [] k = "paperUrl" -> abs_url_of("1234.5678")
          [] k = "isArxiv" -> TRUE
          [] k = "journal" -> "arXiv"
          [] k = "booktitle" -> None
          [] k = "year" -> "2025"
          [] k = "metadata" -> ScrapedMetadata]

RecConference ==
    [k \in {"title", "authors", "arxivId", "paperUrl", "isArxiv", "journal",
            "booktitle", "year", "metadata"} |->
        CASE k = "title" -> "Paper about Y"
          [] k = "authors" -> Authors2
          [] k = "arxivId" -> None
          [] k = "paperUrl" -> "https://openreview.net/forum?id=Y"
          [] k = "isArxiv" -> FALSE
          [] k = "journal" -> None
          [] k = "booktitle" -> "NeurIPS"
          [] k = "year" -> "2024"
          [] k = "metadata" -> EmptyDict]

DirectRecords == {RecTestEnrich, RecTestSkip, RecArxivScraped, RecConference}

\* What the surroundings of one _extract_paper_full_info call may do (when
\* building the Paper raises, what the page heuristic returned is lost)
Envs(paper_data) ==
    {env \in [outcome : Outcomes(IF Truthy(Get(paper_data, "arxivId"))
                                 THEN paper_data["arxivId"] ELSE "1234.5678"),
              heur : {"", "Scraped abstract"},
              exc : BOOLEAN] :
        env.exc => env.heur = ""}

-----------------------------------------------------------------------------
(* The state machine *)

Init ==
    /\ pc = "idle"
    /\ error = "none"
    /\ cap = NoCap
    /\ buttons = <<>>
    /\ bi = 1
    /\ allPapers = <<>>
    /\ papers = <<>>
    /\ pi = 1
    /\ result_papers = <<>>
    /\ resultBtn = <<>>
    /\ cache = EmptyDict
    /\ lastAsm = NoCall
    /\ lastReq = NoCall
    /\ lastFetch = NoCall
    /\ firstReq = [id \in ArxivIds |-> NotAsked]
    /\ firstRec = [id \in ArxivIds |-> NotFound]
    /\ netCalls = [id \in ArxivIds |-> 0]
    /\ failed = {}
    /\ direct = 0
    /\ relPc = "idle"
    /\ relRun = NoCall
    /\ relPaper = NoPaper
    /\ figRun = NoCall
    /\ figFiles = {}
    /\ runPc = "idle"
    /\ date_range = NoCall
    /\ config = NoCall
    /\ di = 1
    /\ install_attempted = FALSE
    /\ launches = 0
    /\ installs = 0
    /\ launchErr = "none"
    /\ openBrowsers = 0
    /\ contextOpen = FALSE
    /\ scrapeOut = NoCall
    /\ scrapeLog = <<>>
    /\ all_papers = <<>>
    /\ runPapers = <<>>
    /\ cacheFiles = {}
    /\ downloaded = {}
    /\ unlinkFailed = {}
    /\ cleanups = 0
    /\ lastCleanup = NoCall
    /\ postPc = "idle"
    /\ emitted = <<>>
    /\ procCfg = NoCall
    /\ procPapers = <<>>
    /\ pidx = 1
    /\ steps = <<>>
    /\ lastPost = NoCall
    /\ pgPc = "idle"
    /\ pgCards = <<>>
    /\ pgi = 1
    /\ pgOpen = <<>>
    /\ pgPapers = <<>>
    /\ pgLog = <<>>
    /\ pri = 1

\* What one _extract_paper_full_info call leaves behind in the scraper and
\* in the observations
Assembled(paper_data, env, r) ==
    /\ cache' = r.cache
    /\ lastAsm' = [raw |-> paper_data, paper |-> r.paper, asked |-> r.asked,
                   net |-> r.net, arxiv_metadata |-> r.arxiv_metadata,
                   metadata |-> r.metadata, heur |-> env.heur,
                   heurAsked |-> r.heurAsked, exc |-> env.exc,
                   outcome |-> IF r.net THEN env.outcome ELSE NoCall]
    /\ IF r.asked
       THEN LET id == paper_data["arxivId"]
            IN  /\ lastReq' = [id |-> id, result |-> r.arxiv_metadata, net |-> r.net,
                               repeat |-> firstReq[id] # NotAsked,
                               first |-> firstReq[id],
                               firstRec |-> firstRec[id]]
                /\ firstReq' = IF firstReq[id] = NotAsked
                               THEN [firstReq EXCEPT ![id] = r.arxiv_metadata]
                               ELSE firstReq
                /\ firstRec' = IF firstRec[id] = NotFound /\ TruthyDict(r.arxiv_metadata)
                               THEN [firstRec EXCEPT ![id] = r.arxiv_metadata]
                               ELSE firstRec
                /\ netCalls' = IF r.net THEN [netCalls EXCEPT ![id] = @ + 1] ELSE netCalls
       ELSE UNCHANGED <<lastReq, firstReq, firstRec, netCalls>>

\* ArxivClient.fetch_paper_metadata_sync is called on its own
FetchSync ==
    /\ UNCHANGED sideVars
    /\ pc = "idle"
    /\ direct = 0
    /\ \E id \in ArxivIds : \E outcome \in Outcomes(id) :
        lastFetch' = [variant |-> "sync", id |-> id, outcome |-> outcome,
                      result |-> fetch_paper_metadata_sync(outcome)]
    /\ UNCHANGED <<pc, error, cap, buttons, bi, allPapers, papers, pi, result_papers,
                   resultBtn, cache, lastAsm, lastReq, firstReq, firstRec, netCalls,
                   failed, direct>>

\* ArxivClient.fetch_paper_metadata (the coroutine) is called on its own
FetchAsync ==
    /\ UNCHANGED sideVars
    /\ pc = "idle"
    /\ direct = 0
    /\ \E id \in ArxivIds : \E outcome \in Outcomes(id) :
        lastFetch' = [variant |-> "async", id |-> id, outcome |-> outcome,
                      result |-> fetch_paper_metadata(outcome)]
    /\ UNCHANGED <<pc, error, cap, buttons, bi, allPapers, papers, pi, result_papers,
                   resultBtn, cache, lastAsm, lastReq, firstReq, firstRec, netCalls,
                   failed, direct>>

\* _extract_paper_full_info is called on its own, as the tests call it
DirectAssemble ==
    /\ UNCHANGED sideVars
    /\ pc = "idle"
    /\ direct < MaxDirect
    /\ \E paper_data \in DirectRecords :
        \E env \in Envs(paper_data) :
            LET r == _extract_paper_full_info(cache, paper_data, env)
            IN  Assembled(paper_data, env, r)
    /\ direct' = direct + 1
    /\ lastFetch' = NoCall
    /\ UNCHANGED <<pc, error, cap, buttons, bi, allPapers, papers, pi, result_papers,
                   resultBtn, failed>>

\* scrape_papers(url, max_papers) is called on a page
StartScrape ==
    /\ UNCHANGED sideVars
    /\ pc = "idle"
    /\ direct = 0
    /\ \E page \in Pages, c \in Caps :
        /\ buttons' = page
        /\ cap' = c
    /\ pc' = "goto"
    /\ lastAsm' = NoCall
    /\ lastFetch' = NoCall
    /\ UNCHANGED <<error, bi, allPapers, papers, pi, result_papers, resultBtn, cache,
                   lastReq, firstReq, firstRec, netCalls, failed, direct>>

\* scraper.py:53: page.goto raises (the finally block closes the browser)
NavigateFail ==
    /\ UNCHANGED sideVars
    /\ pc = "goto"
    /\ pc' = "raised"
    /\ error' = "goto"
    /\ UNCHANGED <<lastFetch, cap, buttons, bi, allPapers, papers, pi, result_papers, resultBtn,
                   cache, lastAsm, lastReq, firstReq, firstRec, netCalls, failed, direct>>

\* scraper.py:53-74: the page is loaded and scrolled
NavigateOk ==
    /\ UNCHANGED sideVars
    /\ pc = "goto"
    /\ pc' = "extract"
    /\ UNCHANGED <<error, lastFetch, cap, buttons, bi, allPapers, papers, pi, result_papers, resultBtn,
                   cache, lastAsm, lastReq, firstReq, firstRec, netCalls, failed, direct>>

\* scraper.py:163-327: the export loop handles its next share button
ExportStep ==
    /\ UNCHANGED sideVars
    /\ pc = "extract"
    /\ bi <= Len(shareButtons(buttons))
    /\ LET btn == shareButtons(buttons)[bi]
           r == ExportOne(buttons[btn].e, btn)
       IN  IF r.raised
           THEN /\ pc' = "raised"
                /\ error' = "export"
                /\ UNCHANGED <<bi, allPapers>>
           ELSE /\ allPapers' = allPapers \o r.push
                /\ bi' = bi + 1
                /\ UNCHANGED <<pc, error>>
    /\ UNCHANGED <<lastFetch, cap, buttons, papers, pi, result_papers, resultBtn, cache,
                   lastAsm, lastReq, firstReq, firstRec, netCalls, failed, direct>>

\* scraper.py:77-80: the export is over, its records are cut to the cap
CapStep ==
    /\ UNCHANGED sideVars
    /\ pc = "extract"
    /\ bi > Len(shareButtons(buttons))
    /\ papers' = ApplyMaxPapers(allPapers, cap)
    /\ pi' = 1
    /\ pc' = "assemble"
    /\ UNCHANGED <<error, lastFetch, cap, buttons, bi, allPapers, result_papers, resultBtn, cache,
                   lastAsm, lastReq, firstReq, firstRec, netCalls, failed, direct>>

\* scraper.py:86-90: the assembly loop handles its next raw record
AssembleStep ==
    /\ UNCHANGED sideVars
    /\ pc = "assemble"
    /\ pi <= Len(papers)
    /\ \E env \in Envs(papers[pi]) :
        LET r == _extract_paper_full_info(cache, papers[pi], env)
        IN  /\ Assembled(papers[pi], env, r)
            /\ failed' = IF env.exc THEN failed \cup {papers[pi]["btn"]} ELSE failed
            /\ IF r.paper = Raised
               THEN /\ pc' = "raised"
                    /\ error' = "assemble"
                    /\ UNCHANGED <<pi, result_papers, resultBtn>>
               ELSE /\ UNCHANGED <<pc, error>>
                    /\ pi' = pi + 1
                    /\ IF r.paper # NoPaper
                       THEN /\ result_papers' = append(result_papers, r.paper)
                            /\ resultBtn' = append(resultBtn, papers[pi]["btn"])
                       ELSE UNCHANGED <<result_papers, resultBtn>>
    /\ UNCHANGED <<lastFetch, cap, buttons, bi, allPapers, papers, direct>>

\* scraper.py:92: return result_papers
Return ==
    /\ UNCHANGED sideVars
    /\ pc = "assemble"
    /\ pi > Len(papers)
    /\ pc' = "returned"
    /\ UNCHANGED <<error, lastFetch, cap, buttons, bi, allPapers, papers, pi, result_papers, resultBtn,
                   cache, lastAsm, lastReq, firstReq, firstRec, netCalls, failed, direct>>

Next ==
    \/ FetchSync
    \/ FetchAsync
    \/ DirectAssemble
    \/ StartScrape
    \/ NavigateFail
    \/ NavigateOk
    \/ ExportStep
    \/ CapStep
    \/ AssembleStep
    \/ Return

Spec == Init /\ [][Next]_vars

-----------------------------------------------------------------------------
(* Vocabulary of the properties *)

Range(seq) == {seq[i] : i \in DOMAIN seq}

\* the share buttons the export loop handles, as a set of indices
Kept == Range(shareButtons(buttons))

\* the citation behind a button can be exported: the control and the text
\* are there, no step raises, and title and authors are parsed
Healthy(e) ==
    /\ e.ctl
    /\ ~e.throws
    /\ e.bib.kind \in {"@inproceedings", "@article"}
    /\ Truthy(Match(e.bib, "title"))
    /\ Match(e.bib, "author") # <<>>

\* the position of button i among the exportable buttons the loop handles
Rank(i) == Cardinality({j \in Kept : j <= i /\ Healthy(buttons[j].e)})

ExportOver == pc \in {"assemble", "returned"}

WithinCap(i) == ~cap.given \/ Rank(i) <= cap.n

Increasing(seq) == \A i, j \in DOMAIN seq : i < j => seq[i] < seq[j]

BtnsOf(records) == [i \in DOMAIN records |-> records[i]["btn"]]

\* the Paper returned for button i
PaperOf(i) == result_papers[CHOOSE k \in DOMAIN resultBtn : resultBtn[k] = i]

AssemblyDone == lastAsm # NoCall

Enriched == AssemblyDone /\ TruthyDict(lastAsm.arxiv_metadata) /\ lastAsm.paper # NoPaper

HasId(paper_data) == Truthy(Get(paper_data, "arxivId"))

\* the scraped values of a raw record for the fields metadata also provides
ScrapedTitle(paper_data) == Get(paper_data, "title")
ScrapedAuthors(paper_data) == _parse_authors(GetOr(paper_data, "authors", <<>>))
ScrapedMeta(paper_data, k) == Get(GetOr(paper_data, "metadata", EmptyDict), k)
ScrapedCategories(paper_data) ==
    GetOr(GetOr(paper_data, "metadata", EmptyDict), "categories", <<>>)

\* value v is the one of fetched and scraped the claim of precedence picks,
\* when it picks one: the fetched value if non-empty, else the scraped one
Preferred(v, fetched, scraped) ==
    /\ Truthy(fetched) => v = fetched
    /\ ~Truthy(fetched) /\ Truthy(scraped) => v = scraped

PreferredList(v, fetched, scraped) ==
    /\ fetched # <<>> => v = fetched
    /\ fetched = <<>> /\ scraped # <<>> => v = scraped

\* the Paper has a field f and carries the preferred value in it
Carries(paper, f, fetched, scraped) ==
    f \in DOMAIN paper /\ Preferred(paper[f], fetched, scraped)

-----------------------------------------------------------------------------
(* C1 *)

\* C1: a failure confined to one paper (citation control or citation text
\* missing, an exception in its export step, an exception during its
\* assembly) removes at most that paper: when scrape_papers returns, every
\* paper that is exportable, whose assembly did not raise and that the cap
\* leaves in is in the result, and scrape_papers raises only for a failure
\* of the page, never for one of a paper.
C1_PerPaperIsolation ==
    /\ pc = "raised" => error = "goto"
    /\ pc = "returned" =>
        \A i \in Kept :
            Healthy(buttons[i].e) /\ i \notin failed /\ WithinCap(i)
                => i \in Range(resultBtn)

\* a paper failed in export, a later one failed in assembly or not at all,
\* and a paper after the failed one was returned
C1_Witness ==
    /\ pc = "returned"
    /\ \E i, j \in Kept :
        /\ i < j
        /\ buttons[i].e.throws \/ ~buttons[i].e.ctl \/ buttons[i].e.bib = NoBib
        /\ j \in Range(resultBtn)

\* an assembly raised and another paper of the page was returned
C1_WitnessAssembly ==
    /\ pc = "returned"
    /\ failed # {}
    /\ result_papers # <<>>

-----------------------------------------------------------------------------
(* C2 *)

\* C2 as stated: for each of title, authors, categories, submitted_date,
\* abs_url and doi the assembled Paper carries the fetched value when that
\* is non-empty and the scraped one when the fetched one is empty.
C2_PaperCarriesAllSix ==
    Enriched =>
        LET R == lastAsm.raw
            M == lastAsm.arxiv_metadata
            P == lastAsm.paper
        IN  /\ Carries(P, "title", Get(M, "title"), ScrapedTitle(R))
            /\ PreferredList(P.authors, M["authors"], ScrapedAuthors(R))
            /\ PreferredList(P.categories, M["categories"], ScrapedCategories(R))
            /\ Carries(P, "submitted_date", Get(M, "published"),
                       ScrapedMeta(R, "submitted_date"))
            /\ Carries(P, "arxiv_url", Get(M, "abs_url"), ScrapedMeta(R, "abs_url"))
            /\ Carries(P, "doi", Get(M, "doi"), ScrapedMeta(R, "doi"))

\* C2 amended: the precedence holds in the Paper for title, authors,
\* categories, submitted_date and abs_url (carried as arxiv_url); for doi it
\* holds in the assembler's merged metadata only, the Paper has no doi.
C2_PrefersFetched ==
    Enriched =>
        LET R == lastAsm.raw
            M == lastAsm.arxiv_metadata
            P == lastAsm.paper
        IN  /\ Carries(P, "title", Get(M, "title"), ScrapedTitle(R))
            /\ PreferredList(P.authors, M["authors"], ScrapedAuthors(R))
            /\ PreferredList(P.categories, M["categories"], ScrapedCategories(R))
            /\ Carries(P, "submitted_date", Get(M, "published"),
                       ScrapedMeta(R, "submitted_date"))
            /\ Carries(P, "arxiv_url", Get(M, "abs_url"), ScrapedMeta(R, "abs_url"))
            /\ Preferred(Get(lastAsm.metadata, "doi"), Get(M, "doi"), ScrapedMeta(R, "doi"))
            /\ "doi" \notin DOMAIN P

\* a record with scraped values was merged with metadata that has a title
\* and categories but neither authors nor a date of its own ... and both
\* directions of the precedence show in the Paper
C2_Witness ==
    /\ Enriched
    /\ lastAsm.raw = RecArxivScraped
    /\ lastAsm.paper.title = "API Title"
    /\ lastAsm.paper.authors = <<"Scraped Author">>
    /\ lastAsm.paper.categories = <<"cs.AI">>
    /\ lastAsm.paper.arxiv_url = "https://scholar-inbox.com/paper/1234"

-----------------------------------------------------------------------------
(* C3 *)

\* C3: for every raw record whose arxivId is set the assembly asks the
\* metadata fetcher for that id, the identifier alone triggering the fetch,
\* and when a record comes back the Paper has its title, authors, abstract,
\* categories and published date and keeps the record's arxivId.
C3_FetchOnIdAlone ==
    AssemblyDone /\ HasId(lastAsm.raw) =>
        /\ lastAsm.asked
        /\ Enriched =>
            LET M == lastAsm.arxiv_metadata
                P == lastAsm.paper
            IN  /\ Truthy(Get(M, "title")) => P.title = M["title"]
                /\ M["authors"] # <<>> => P.authors = M["authors"]
                /\ Truthy(Get(M, "abstract")) => P.abstract = M["abstract"]
                /\ M["categories"] # <<>> => P.categories = M["categories"]
                /\ Truthy(Get(M, "published")) => P.submitted_date = M["published"]
                /\ P.arxiv_id = lastAsm.raw["arxivId"]

-----------------------------------------------------------------------------
(* C4 *)

\* C4: for a raw record without identifier the assembly never invokes the
\* metadata fetcher, the Paper has arxiv_id unset and its abstract is what
\* the page heuristic returned.
C4_NoIdNoFetch ==
    AssemblyDone /\ ~HasId(lastAsm.raw) =>
        /\ ~lastAsm.asked
        /\ ~lastAsm.net
        /\ lastAsm.arxiv_metadata = NotFound
        /\ lastAsm.paper # NoPaper =>
            /\ lastAsm.paper.arxiv_id = None
            /\ lastAsm.heurAsked
            /\ lastAsm.paper.abstract = lastAsm.heur

\* a record without identifier was assembled and the page had an abstract
C4_Witness ==
    /\ AssemblyDone
    /\ ~HasId(lastAsm.raw)
    /\ lastAsm.paper # NoPaper
    /\ lastAsm.paper.abstract = "Scraped abstract"

-----------------------------------------------------------------------------
(* C5 *)

\* C5 as stated: every request for an id requested before returns what the
\* first request for it returned and makes no network call, so no id costs
\* more than one round trip.
C5_RepeatAlwaysCached ==
    /\ lastReq # NoCall /\ lastReq.repeat =>
        lastReq.result = lastReq.first /\ ~lastReq.net
    /\ \A id \in ArxivIds : netCalls[id] <= 1

\* C5 amended: every request for an id for which an earlier request
\* returned a record returns that same record and makes no network call; an
\* id whose requests found nothing so far is asked for again.
C5_RepeatCachedRecord ==
    lastReq # NoCall /\ lastReq.firstRec # NotFound =>
        /\ lastReq.result = lastReq.firstRec
        /\ ~lastReq.net

\* an id was requested again after a request for it had returned a record
C5_Witness ==
    /\ lastReq # NoCall
    /\ lastReq.repeat
    /\ lastReq.firstRec # NotFound
    /\ netCalls[lastReq.id] = 1

-----------------------------------------------------------------------------
(* C6 *)

\* C6: the metadata fetch, sync and async alike, never raises: a transport
\* or parse failure and an answer without match yield NotFound, and the
\* caller then assembles the Paper from the scraped fields.
C6_FetchNeverRaises ==
    /\ lastFetch # NoCall =>
        /\ lastFetch.result # Raised
        /\ lastFetch.outcome.kind # "found" => lastFetch.result = NotFound
    /\ lastReq # NoCall => lastReq.result # Raised
    /\ AssemblyDone /\ lastAsm.net /\ lastAsm.outcome.kind # "found" =>
        /\ lastAsm.arxiv_metadata = NotFound
        /\ ~lastAsm.exc =>
            /\ lastAsm.paper # NoPaper
            /\ lastAsm.paper.title = Or(ScrapedTitle(lastAsm.raw), "")
            /\ lastAsm.paper.authors = ScrapedAuthors(lastAsm.raw)
            /\ lastAsm.paper.abstract = lastAsm.heur

\* the transport failed while a paper of the page was assembled, and the
\* Paper was built from what the page gave
C6_Witness ==
    /\ AssemblyDone
    /\ lastAsm.net
    /\ lastAsm.outcome.kind = "transport"
    /\ lastAsm.paper # NoPaper
    /\ lastAsm.paper.title = "Paper about X"
    /\ lastAsm.paper.authors = <<"A. One", "B. Two">>

\* the coroutine variant met a parse failure
C6_WitnessAsync ==
    /\ lastFetch # NoCall
    /\ lastFetch.variant = "async"
    /\ lastFetch.outcome.kind = "parse"

-----------------------------------------------------------------------------
(* C7 *)

\* C7: for every cap N >= 0 scrape_papers returns at most N Papers, and
\* the cap is applied only after every share button was processed.
C7_AtMostCap ==
    /\ pc = "returned" /\ cap.given => Len(result_papers) <= cap.n
    /\ pc \in {"assemble", "returned"} => bi > Len(shareButtons(buttons))

-----------------------------------------------------------------------------
(* C8 *)

\* C8: the Papers scrape_papers returns are in document order: the raw
\* records and the Papers follow the order of their share buttons.
C8_DocumentOrder ==
    /\ Increasing(BtnsOf(allPapers))
    /\ Increasing(BtnsOf(papers))
    /\ Increasing(resultBtn)
    /\ Len(resultBtn) = Len(result_papers)

\* two Papers were returned
C8_Witness ==
    /\ pc = "returned"
    /\ Len(result_papers) >= 2

-----------------------------------------------------------------------------
(* C9 *)

\* C9: every raw record the export emits has a non-empty title and a
\* non-empty author string; a citation lacking either emits nothing.
C9_TitleAndAuthors ==
    /\ \A i \in DOMAIN allPapers :
        /\ Truthy(allPapers[i]["title"])
        /\ allPapers[i]["authors"] # <<>>
    /\ ExportOver =>
        \A i \in Kept :
            buttons[i].e.bib \in {BibNoTitle, BibNoAuthor}
                => i \notin Range(BtnsOf(allPapers))

\* the export went over a citation without title and emitted another paper
C9_Witness ==
    /\ ExportOver
    /\ \E i \in Kept : buttons[i].e = Entry(TRUE, BibNoTitle, FALSE, None)
    /\ allPapers # <<>>

\* the export went over a citation without authors
C9_WitnessAuthors ==
    /\ ExportOver
    /\ \E i \in Kept : buttons[i].e = Entry(TRUE, BibNoAuthor, FALSE, None)

-----------------------------------------------------------------------------
(* C10 *)

\* a paper that is not identifier-bearing and for which no title link is
\* found although its citation is exportable
Unlinked(e) ==
    /\ Healthy(e)
    /\ ~IsArxivCitation(Parse(e.bib))
    /\ e.link = None

\* C10 as stated: such a paper is dropped from the result list.
C10_UnlinkedDropped ==
    /\ ExportOver =>
        \A i \in Kept : Unlinked(buttons[i].e) => i \notin Range(BtnsOf(allPapers))
    /\ \A i \in Range(resultBtn) : ~Unlinked(buttons[i].e)

\* C10 amended: such a paper is emitted with paperUrl null and, unless its
\* assembly raises or the cap cuts it, returned as a Paper whose arxiv_url
\* is unset; the batch continues with the next paper.
C10_UnlinkedKept ==
    /\ ExportOver =>
        \A i \in Kept : Unlinked(buttons[i].e) =>
            \E k \in DOMAIN allPapers :
                allPapers[k]["btn"] = i /\ allPapers[k]["paperUrl"] = None
    /\ pc = "returned" =>
        \A i \in Kept : Unlinked(buttons[i].e) /\ i \notin failed /\ WithinCap(i) =>
            /\ i \in Range(resultBtn)
            /\ PaperOf(i).arxiv_url = None
            /\ PaperOf(i).arxiv_id = None
    /\ pc = "extract" => bi <= Len(shareButtons(buttons)) + 1

\* an unlinked paper and the paper after it were both returned
C10_Witness ==
    /\ pc = "returned"
    /\ \E i, j \in Range(resultBtn) :
        /\ i < j
        /\ Unlinked(buttons[i].e)
        /\ PaperOf(i).arxiv_url = None

-----------------------------------------------------------------------------
(* The relevance locator: scraper.py:331-418, the forEach body for one paper *)

MaxEls == 4         \* span/div elements directly inside the paper's card

MaxAscents == 15    \* for (let i = 0; i < 15; i++)

\* What the trimmed textContent of a span or div may be
Texts == {"0", "45", "300", "2100", "2101", "07", "views"}

\* parseInt(text): the leading integer of the text, NaN when there is none
parseInt(text) ==
    CASE text = "0" -> [nan |-> FALSE, num |-> 0]
      [] text = "45" -> [nan |-> FALSE, num |-> 45]
      [] text = "300" -> [nan |-> FALSE, num |-> 300]
      [] text = "2100" -> [nan |-> FALSE, num |-> 2100]
      [] text = "2101" -> [nan |-> FALSE, num |-> 2101]
      [] text = "07" -> [nan |-> FALSE, num |-> 7]
      [] OTHER -> [nan |-> TRUE, num |-> 0]

\* scraper.py:369, "Skip years"
IsYear(num) == num >= 2000 /\ num <= 2100

\* mutant: years are collected like any other number
Mut_collect_years(text) ==
    LET p == parseInt(text)
    IN  ~p.nan /\ text = ToString(p.num) /\ p.num >= 0 /\ p.num < 10000

\* scraper.py:362-370: whether the element with this text is pushed to numbersFound
Collected(text) ==
    LET p == parseInt(text)
    IN  /\ ~p.nan /\ text = ToString(p.num) /\ p.num >= 0 /\ p.num < 10000
        /\ ~IsYear(p.num)

\* scraper.py:360-382: the numbers found among the elements of a container,
\* each with the position of its element
numbersFound(els) ==
    LET idx == [i \in 1..Len(els) |-> i]
        kept == SelectSeq(idx, LAMBDA i : Collected(els[i]))
    IN  [k \in 1..Len(kept) |-> [num |-> parseInt(els[kept[k]]).num, el |-> kept[k]]]

\* scraper.py:388 (the positions are kept beside the numbers)
validNumbers(found) == SelectSeq(found, LAMBDA n : n.num >= 0 /\ n.num < 1000)

\* scraper.py:400
FitsPattern(r, t, v) ==
    r >= 0 /\ r <= 100 /\ t >= 0 /\ t <= 50 /\ v >= 0 /\ v <= 1000

\* mutant: the last fitting triple of the container wins
Mut_last_triple(valid) ==
    LET fits == {j \in 1..(Len(valid) - 2) :
                    FitsPattern(valid[j].num, valid[j + 1].num, valid[j + 2].num)}
    IN  IF Len(valid) >= 3 /\ fits # {}
        THEN CHOOSE j \in fits : \A k \in fits : j >= k
        ELSE 0

\* scraper.py:390-409: the first j whose contiguous triple fits, 0 when none does
FirstTriple(valid) ==
    LET fits == {j \in 1..(Len(valid) - 2) :
                    FitsPattern(valid[j].num, valid[j + 1].num, valid[j + 2].num)}
    IN  IF Len(valid) >= 3 /\ fits # {}
        THEN CHOOSE j \in fits : \A k \in fits : j <= k
        ELSE 0

\* The ancestors of a share button.  The ancestors below level d hold no
\* span or div with a number, the ancestor at level d (the paper's card)
\* holds the elements inner, every ancestor above it the elements outer
\* followed by inner; the topmost ancestor is at level d + 1.
Chains ==
    [d : {1, MaxAscents, MaxAscents + 1},
     inner : UNION {[1..n -> Texts] : n \in 0..MaxEls},
     outer : {<<>>, <<"0", "0", "0">>}]

Height(chain) == chain.d + 1

\* container.querySelectorAll('span, div') at the i-th ancestor
ElementsAt(chain, i) ==
    IF i < chain.d THEN <<>>
    ELSE IF i = chain.d THEN chain.inner
    ELSE chain.outer \o chain.inner

\* mutant: a triple of zeros is taken for "nothing found"
Mut_zero_is_absent(valid, j) ==
    IF valid[j].num = 0 /\ valid[j + 1].num = 0 /\ valid[j + 2].num = 0
    THEN EmptyDict
    ELSE [k \in {"relevance_score", "thumbs_up", "read_by"} |->
            CASE k = "relevance_score" -> valid[j].num
              [] k = "thumbs_up" -> valid[j + 1].num
              [] k = "read_by" -> valid[j + 2].num]

\* scraper.py:401-405: paper.metadata.relevance
RelevanceObject(valid, j) ==
    [k \in {"relevance_score", "thumbs_up", "read_by"} |->
        CASE k = "relevance_score" -> valid[j].num
          [] k = "thumbs_up" -> valid[j + 1].num
          [] k = "read_by" -> valid[j + 2].num]

\* scraper.py:346-413: the walk from the i-th ascent on; tested collects
\* numbersFound of every container looked at
RECURSIVE LocateFrom(_, _, _)
LocateFrom(chain, i, tested) ==
    IF i > MaxAscents \/ i > Height(chain)
    THEN [found |-> FALSE, tested |-> tested]
    ELSE LET found == numbersFound(ElementsAt(chain, i))
             valid == validNumbers(found)
             j == FirstTriple(valid)
         IN  IF j # 0
             THEN [found |-> TRUE, level |-> i, tested |-> Append(tested, found),
                   els |-> <<valid[j].el, valid[j + 1].el, valid[j + 2].el>>,
                   relevance |-> RelevanceObject(valid, j)]
             ELSE LocateFrom(chain, i + 1, Append(tested, found))

Locate(chain) == LocateFrom(chain, 1, <<>>)

\* The raw record after the forEach body ran for it: metadata.relevance is
\* set when a triple was found and left undefined otherwise
WithRelevance(paper_data, located) ==
    IF located.found
    THEN Put(paper_data, "metadata", Put(paper_data["metadata"], "relevance", located.relevance))
    ELSE paper_data

\* The surroundings of the assembly of a paper without identifier: the
\* metadata service is not asked, building the Paper may raise
RelEnvs(paper_data) ==
    {env \in Envs(paper_data) :
        /\ env.heur = ""
        /\ env.outcome = CHOOSE o \in Outcomes("1234.5678") : o.kind = "nomatch"}

\* validPapers.forEach body for one exported paper
LocateRelevance ==
    /\ relPc = "idle"
    /\ \E chain \in Chains :
        LET located == Locate(chain)
        IN  /\ relRun' = [chain |-> chain, located |-> located]
            /\ relPaper' = WithRelevance(RecConference, located)
    /\ relPc' = "located"
    /\ UNCHANGED <<scrapeVars, postVars, pageVars, figVars, runVars>>

\* _extract_paper_full_info on the record the locator worked on
AssembleLocated ==
    /\ relPc = "located"
    /\ \E env \in RelEnvs(relPaper) :
        relPaper' = _extract_paper_full_info(EmptyDict, relPaper, env).paper
    /\ relPc' = "assembled"
    /\ UNCHANGED <<scrapeVars, postVars, pageVars, relRun, figVars, runVars>>

NextRel ==
    \/ LocateRelevance
    \/ AssembleLocated

SpecRel == Init /\ [][NextRel]_vars

-----------------------------------------------------------------------------
(* Properties of the relevance locator *)

\* the number an element of the i-th ancestor shows
NumAt(chain, i, el) == parseInt(ElementsAt(chain, i)[el]).num

\* whether the i-th ancestor holds a contiguous triple that fits
Satisfying(chain, i) ==
    FirstTriple(validNumbers(numbersFound(ElementsAt(chain, i)))) # 0

\* the ancestors the walk can reach
Reachable(chain) == {i \in 1..MaxAscents : i <= Height(chain)}

\* the lowest reachable ancestor that holds a fitting triple
FirstLevel(chain) ==
    CHOOSE i \in Reachable(chain) :
        /\ Satisfying(chain, i)
        /\ \A k \in Reachable(chain) : Satisfying(chain, k) => i <= k

\* the triple the lowest such ancestor yields, as a PaperRelevance
ExpectedRelevance(chain) ==
    LET valid == validNumbers(numbersFound(ElementsAt(chain, FirstLevel(chain))))
        j == FirstTriple(valid)
    IN  [relevance_score |-> valid[j].num, thumbs_up |-> valid[j + 1].num,
         read_by |-> valid[j + 2].num, category |-> ""]

RelevancePaperBuilt == relPc = "assembled" /\ relPaper # NoPaper

\* C13: no number collected at any ancestor the walk looked at, and no member
\* of the triple the paper gets, comes from an element showing a value in
\* [2000, 2100]; those elements are left out before any triple is tested.
C13_NoYearInTriple ==
    relPc # "idle" =>
        LET chain == relRun.chain
            located == relRun.located
        IN  /\ \A i \in 1..Len(located.tested) :
                \A k \in 1..Len(located.tested[i]) :
                    /\ ~IsYear(located.tested[i][k].num)
                    /\ ~IsYear(NumAt(chain, i, located.tested[i][k].el))
            /\ located.found =>
                /\ \A m \in 1..3 : ~IsYear(NumAt(chain, located.level, located.els[m]))
                /\ RelevancePaperBuilt =>
                    /\ relPaper.paper_relevance # NoRelevance
                    /\ relPaper.paper_relevance.relevance_score =
                            NumAt(chain, located.level, located.els[1])
                    /\ relPaper.paper_relevance.thumbs_up =
                            NumAt(chain, located.level, located.els[2])
                    /\ relPaper.paper_relevance.read_by =
                            NumAt(chain, located.level, located.els[3])

\* C13 witness: a Paper got its triple from a card in which an element
\* showing 2100 stands between two members of the triple
C13_Witness ==
    /\ RelevancePaperBuilt
    /\ relRun.located.found
    /\ \E el \in 1..Len(ElementsAt(relRun.chain, relRun.located.level)) :
        /\ ElementsAt(relRun.chain, relRun.located.level)[el] = "2100"
        /\ relRun.located.els[1] < el
        /\ el < relRun.located.els[3]

\* C14: the Paper has no relevance exactly when no ancestor within 15
\* ascents holds a fitting triple; when one does, the Paper carries a
\* PaperRelevance with the three values of the first fitting triple of the
\* lowest such ancestor, the triple (0, 0, 0) included.
C14_AbsentIffNoTriple ==
    RelevancePaperBuilt =>
        LET chain == relRun.chain
            any == \E i \in Reachable(chain) : Satisfying(chain, i)
        IN  /\ (relPaper.paper_relevance = NoRelevance) <=> ~any
            /\ any => relPaper.paper_relevance = ExpectedRelevance(chain)

\* C14 witness: the triple found is (0, 0, 0) and the Paper carries it
C14_Witness ==
    /\ RelevancePaperBuilt
    /\ relRun.located.found
    /\ relRun.located.relevance["relevance_score"] = 0
    /\ relRun.located.relevance["thumbs_up"] = 0
    /\ relRun.located.relevance["read_by"] = 0
    /\ relPaper.paper_relevance # NoRelevance
    /\ relPaper.paper_relevance.relevance_score = 0

\* C14 witness of absence: the only fitting triple sits at the 16th
\* ancestor, and the Paper has no relevance
C14_WitnessAbsent ==
    /\ RelevancePaperBuilt
    /\ relRun.chain.d = MaxAscents + 1
    /\ Satisfying(relRun.chain, MaxAscents + 1)
    /\ relPaper.paper_relevance = NoRelevance

-----------------------------------------------------------------------------
(* The teaser figure extractors: scraper.py:634-788 and 790-930 *)

MaxImgs == 3        \* img elements inside the paper's card

PrefixLen == 50     \* fig_data['caption'][:50]

\* A text is the sequence of its characters.  An image source is written
\* from the last '/' before its file name on (the origin stands before it).
SrcPlain == <<"/", "7", ".", "0", ".", "j", "p", "e", "g">>
SrcUpper == <<"/", "8", ".", "1", "2", ".", "J", "P", "G">>
SrcPng == <<"/", "7", ".", "0", ".", "p", "n", "g">>
SrcQuery == <<"/", "7", ".", "0", ".", "j", "p", "e", "g", "?", "v">>
SrcOneNumber == <<"/", "7", ".", "j", "p", "e", "g">>
SrcLogo == <<"/", "l", "o", "g", "o", ".", "j", "p", "g">>
SrcFolder == <<"/", "7", ".", "0", ".", "j", "p", "g", "/">>
SrcNone == <<>>

Pad(n) == [i \in 1..n |-> "a"]

\* Caption texts as the ascent from an image extracts them; the first two
\* agree on their first 50 characters and differ in the 51st, the third
\* differs from the first in the 50th
CapA == <<"F">> \o Pad(PrefixLen - 1) \o <<"x">>
CapB == <<"F">> \o Pad(PrefixLen - 1) \o <<"y">>
CapC == <<"F">> \o Pad(PrefixLen - 2) \o <<"z", "x">>
NoCaption == <<>>

\* An img element: its src and the caption its ancestors show ('' if none)
Img(src, shown) == [src |-> src, cap |-> shown]

CardImgs ==
    {Img(SrcPlain, CapA), Img(SrcPlain, CapB), Img(SrcPlain, CapC),
     Img(SrcUpper, CapA), Img(SrcPng, CapA)}

\* The images only ancestors above the card hold
OuterImgs ==
    {<<>>, <<Img(SrcUpper, NoCaption)>>, <<Img(SrcOneNumber, CapA)>>,
     <<Img(SrcLogo, CapA)>>, <<Img(SrcFolder, CapA)>>, <<Img(SrcNone, CapA)>>,
     <<Img(SrcQuery, CapB)>>}

\* The page around one paper: whether the link the walk starts from exists,
\* the images of the paper's card, the images further out (a page without
\* the link is taken with nothing further out: nothing of it is looked at)
FigPages ==
    {page \in [anchor : BOOLEAN,
               inner : UNION {[1..n -> CardImgs] : n \in 0..MaxImgs},
               outer : OuterImgs] :
        ~page.anchor => page.outer = <<>>}

Digits == {"0", "1", "2", "3", "4", "5", "6", "7", "8", "9"}

\* the /i flag of the pattern, on the letters it names
Lower(c) ==
    CASE c = "J" -> "j"
      [] c = "P" -> "p"
      [] c = "E" -> "e"
      [] c = "G" -> "g"
      [] OTHER -> c

\* src.lastIndexOf('/') + 1, counting characters from 1
AfterLastSlash(src) ==
    LET slashes == {i \in 1..Len(src) : src[i] = "/"}
    IN  IF slashes = {} THEN 1
        ELSE 1 + CHOOSE i \in slashes : \A k \in slashes : k <= i

\* src.substring(src.lastIndexOf('/') + 1)
Filename(src) == SubSeq(src, AfterLastSlash(src), Len(src))

\* mutant: any file name passes
Mut_any_filename(filename) == TRUE

\* /^\d+\.\d+\.jpe?g$/i.test(filename)
MatchesFigureName(filename) ==
    \E p1 \in 1..Len(filename), p2 \in 1..Len(filename) :
        /\ 1 < p1 /\ p1 + 1 < p2
        /\ filename[p1] = "." /\ filename[p2] = "."
        /\ \A i \in 1..(p1 - 1) : filename[i] \in Digits
        /\ \A i \in (p1 + 1)..(p2 - 1) : filename[i] \in Digits
        /\ LET ext == [i \in 1..(Len(filename) - p2) |-> Lower(filename[p2 + i])]
           IN  ext \in {<<"j", "p", "g">>, <<"j", "p", "e", "g">>}

\* scraper.py:829-834
validImages(imagesInContainer) ==
    SelectSeq(imagesInContainer, LAMBDA img : MatchesFigureName(Filename(img.src)))

\* paperContainer.querySelectorAll('img') at the i-th container of the
\* walk; the first container is the link itself, the second the card
ImagesAt(page, i) ==
    IF i = 1 THEN <<>>
    ELSE IF i = 2 THEN page.inner
    ELSE page.inner \o page.outer

MaxContainers == 15 \* for (let i = 0; i < 15; i++)

\* scraper.py:840-890: one {url, caption} per valid image, the caption
\* replaced by the placeholder (the sign for "figure" and the image's
\* 1-based position) when no ancestor of the image shows one
FiguresOf(valid) ==
    [k \in 1..Len(valid) |->
        [url |-> valid[k].src,
         caption |-> IF valid[k].cap = NoCaption
                     THEN <<"figure-placeholder", ToString(k)>>
                     ELSE valid[k].cap]]

\* scraper.py:813-896: the walk from the i-th container on (the topmost
\* container is the fourth)
RECURSIVE FiguresFrom(_, _)
FiguresFrom(page, i) ==
    IF i > MaxContainers \/ i > 4
    THEN <<>>
    ELSE LET valid == validImages(ImagesAt(page, i))
         IN  IF Len(valid) > 0
             THEN FiguresOf(valid)
             ELSE FiguresFrom(page, i + 1)

\* The script page.evaluate runs: scraper.py:796-900 (640-754)
figuresData(page) ==
    IF ~page.anchor THEN <<>> ELSE FiguresFrom(page, 1)

\* fig_data['caption'][:50] if fig_data['caption'] else ''
caption_prefix(caption) ==
    IF caption = <<>> THEN <<>>
    ELSE SubSeq(caption, 1, IF Len(caption) < PrefixLen THEN Len(caption) ELSE PrefixLen)

\* mutant: the key is the URL alone
Mut_key_url_only(fig_data) == <<fig_data.url, <<>>>>

combination_key(fig_data) == <<fig_data.url, caption_prefix(fig_data.caption)>>

\* scraper.py:904-913: the positions, in figures_data, of the figures kept
UniquePositions(figures_data) ==
    SelectSeq([i \in 1..Len(figures_data) |-> i],
              LAMBDA i : \A k \in 1..(i - 1) :
                    combination_key(figures_data[k]) # combination_key(figures_data[i]))

\* mutant: the loop starts at the second figure
Mut_unique_skips_first(figures_data) ==
    LET pos == SelectSeq(UniquePositions(figures_data), LAMBDA i : i > 1)
    IN  [k \in 1..Len(pos) |-> figures_data[pos[k]]]

\* scraper.py:904-913 (758-767): unique_figures after the loop
unique_figures(figures_data) ==
    LET pos == UniquePositions(figures_data)
    IN  [k \in 1..Len(pos) |-> figures_data[pos[k]]]

\* whether the text holds the piece
Contains(text, piece) ==
    \E i \in 0..(Len(text) - Len(piece)) : SubSeq(text, i + 1, i + Len(piece)) = piece

\* scraper.py:949-955
ExtOf(url) ==
    IF Contains(url, <<".", "p", "n", "g">>) THEN ".png"
    ELSE IF Contains(url, <<".", "g", "i", "f">>) THEN ".gif"
    ELSE IF Contains(url, <<".", "w", "e", "b", "p">>) THEN ".webp"
    ELSE ".jpg"

NoPath == [nopath |-> TRUE]

\* cache_dir / f"{arxiv_id}_fig_{index}_{url_hash}{ext}"; the hash of a URL
\* stands for itself
CachePath(url, arxiv_id, index) ==
    [id |-> arxiv_id, index |-> index, url_hash |-> url, ext |-> ExtOf(url)]

\* _download_image: the path of the file written, None when the request,
\* its status check or the write raised
_download_image(url, arxiv_id, index, outcome) ==
    IF outcome = "ok" THEN CachePath(url, arxiv_id, index) ELSE NoPath

DownloadOutcomes == {"ok", "fail"}

\* mutant: the first failed download ends the loop
Mut_download_stops_at_failure(unique, paper_id, outcomes) ==
    LET firstFail == IF \E i \in 1..Len(unique) : outcomes[i] # "ok"
                     THEN CHOOSE i \in 1..Len(unique) :
                            outcomes[i] # "ok" /\ \A k \in 1..(i - 1) : outcomes[k] = "ok"
                     ELSE Len(unique) + 1
    IN  [i \in 1..(firstFail - 1) |->
            [image_url |-> unique[i].url, caption |-> unique[i].caption,
             local_path |-> _download_image(unique[i].url, paper_id, i - 1, outcomes[i])]]

\* scraper.py:917-925 (775-783): the figures whose download returned a path
DownloadAll(unique, paper_id, outcomes) ==
    LET ok == SelectSeq([i \in 1..Len(unique) |-> i],
                        LAMBDA i : _download_image(unique[i].url, paper_id, i - 1,
                                                   outcomes[i]) # NoPath)
    IN  [k \in 1..Len(ok) |->
            [image_url |-> unique[ok[k]].url, caption |-> unique[ok[k]].caption,
             local_path |-> _download_image(unique[ok[k]].url, paper_id, ok[k] - 1,
                                            outcomes[ok[k]])]]

\* One run of an extractor: raises tells whether page.evaluate raised, in
\* which case the except clause returns the empty list
ExtractTeaserFigures(page, paper_id, outcomes, raises) ==
    LET figures_data == IF raises THEN <<>> ELSE figuresData(page)
        unique == unique_figures(figures_data)
        figures == DownloadAll(unique, paper_id, outcomes)
    IN  [page |-> page, paper_id |-> paper_id, raises |-> raises,
         kept |-> UniquePositions(figures_data),
         outcomes |-> outcomes, figures |-> figures]

\* the files a run wrote
Written(run) ==
    {run.figures[i].local_path : i \in 1..Len(run.figures)}

\* An extractor runs on a page; each download it starts may fail
RunExtractor(paper_id) ==
    \E page \in FigPages, raises \in BOOLEAN :
        LET n == IF raises THEN 0 ELSE Len(unique_figures(figuresData(page)))
        IN  \E outcomes \in [1..n -> DownloadOutcomes] :
                LET run == ExtractTeaserFigures(page, paper_id, outcomes, raises)
                IN  /\ figRun' = run
                    /\ figFiles' = figFiles \cup Written(run)

\* _extract_teaser_figures_for_arxiv(page, arxiv_id, paper)
ExtractFiguresArxiv ==
    /\ figRun = NoCall
    /\ RunExtractor("1234.5678")
    /\ UNCHANGED <<scrapeVars, postVars, pageVars, relVars, runVars>>

\* _extract_teaser_figures_generic(page, title, paper); the paper id is the
\* first 12 hex digits of the title's MD5
ExtractFiguresGeneric ==
    /\ figRun = NoCall
    /\ RunExtractor("md5:Paper about Y")
    /\ UNCHANGED <<scrapeVars, postVars, pageVars, relVars, runVars>>

NextFig ==
    \/ ExtractFiguresArxiv
    \/ ExtractFiguresGeneric

SpecFig == Init /\ [][NextFig]_vars

-----------------------------------------------------------------------------
(* Properties of the teaser figure extractors *)

FigureRunDone == figRun # NoCall

\* the first n characters of a text
Take(text, n) == [i \in 1..(IF Len(text) < n THEN Len(text) ELSE n) |-> text[i]]

\* the key the data model names: the URL and the caption's first 50 characters
FigKey(url, caption) == <<url, Take(caption, PrefixLen)>>

\* what the script handed to the extractor
Extracted(run) == IF run.raises THEN <<>> ELSE figuresData(run.page)

\* the positions of the extracted figures no earlier one shares a key with
FirstPositions(extracted) ==
    SelectSeq([i \in 1..Len(extracted) |-> i],
              LAMBDA i : \A k \in 1..(i - 1) :
                    FigKey(extracted[k].url, extracted[k].caption)
                        # FigKey(extracted[i].url, extracted[i].caption))

\* the positions, among the figures kept, of those whose download succeeded
Downloaded(run) ==
    SelectSeq([k \in 1..Len(run.kept) |-> k], LAMBDA k : run.outcomes[k] = "ok")

\* every img element of the page around the paper
PageImgs(page) == Range(page.inner) \cup Range(page.outer)

\* the sources of the model whose file name is digits '.' digits '.' jpg or
\* jpeg, whatever the case of the letters
NamedLikeFigure(src) == src \in {SrcPlain, SrcUpper}

\* C11: no two figures of the list share (image_url, first 50 characters of
\* the caption); the figures the de-duplication keeps are exactly the first
\* extracted figure of every key, so figures of one URL whose 50-character
\* prefixes differ are both kept; the list holds the kept figures whose
\* download succeeded, in extraction order.
C11_UniqueByUrlAndPrefix ==
    FigureRunDone =>
        LET figs == figRun.figures
            extracted == Extracted(figRun)
            ok == Downloaded(figRun)
        IN  /\ \A i \in 1..Len(figs) : \A k \in 1..Len(figs) :
                i # k => FigKey(figs[i].image_url, figs[i].caption)
                            # FigKey(figs[k].image_url, figs[k].caption)
            /\ figRun.kept = FirstPositions(extracted)
            /\ Len(figs) = Len(ok)
            /\ \A m \in 1..Len(figs) :
                /\ figs[m].image_url = extracted[figRun.kept[ok[m]]].url
                /\ figs[m].caption = extracted[figRun.kept[ok[m]]].caption

\* C11 witness: three figures of one URL were extracted, the third sharing
\* its 50-character prefix (not its caption) with the first, the second
\* not; the list holds the first and the second
C11_Witness ==
    /\ FigureRunDone
    /\ LET extracted == Extracted(figRun)
           figs == figRun.figures
       IN  /\ Len(extracted) = 3
           /\ extracted[1].url = extracted[2].url
           /\ extracted[1].url = extracted[3].url
           /\ extracted[1].caption # extracted[3].caption
           /\ Take(extracted[1].caption, PrefixLen) = Take(extracted[3].caption, PrefixLen)
           /\ Take(extracted[1].caption, PrefixLen) # Take(extracted[2].caption, PrefixLen)
           /\ Len(figs) = 2
           /\ figs[1].caption = extracted[1].caption
           /\ figs[2].caption = extracted[2].caption

\* C12: an image whose file name does not match digits '.' digits '.' jpg or
\* jpeg is in no figure list, whatever caption its ancestors show and
\* whichever container of the walk is the first to hold a matching image.
C12_OnlyFigureFilenames ==
    FigureRunDone =>
        /\ \A img \in PageImgs(figRun.page) :
            ~NamedLikeFigure(img.src) =>
                \A m \in 1..Len(figRun.figures) : figRun.figures[m].image_url # img.src
        /\ \A m \in 1..Len(figRun.figures) : NamedLikeFigure(figRun.figures[m].image_url)

\* C12 witness: the card holds a .png image with a caption beside matching
\* images, and figures were returned
C12_Witness ==
    /\ FigureRunDone
    /\ \E i \in 1..Len(figRun.page.inner) :
        /\ figRun.page.inner[i].src = SrcPng
        /\ figRun.page.inner[i].cap # NoCaption
    /\ \E i \in 1..Len(figRun.page.inner) : NamedLikeFigure(figRun.page.inner[i].src)
    /\ Len(figRun.figures) > 0

\* C12 witness: the card holds only a .png image, the container above the
\* card is the first with a matching image, and its figure is returned
C12_WitnessOuter ==
    /\ FigureRunDone
    /\ figRun.page.inner = <<Img(SrcPng, CapA)>>
    /\ figRun.page.outer = <<Img(SrcUpper, NoCaption)>>
    /\ Len(figRun.figures) = 1
    /\ figRun.figures[1].image_url = SrcUpper

\* C15: a failed download removes its image only; the figures whose download
\* succeeded are returned in order, each with local_path set to the file
\* written for it.
C15_FailedDownloadSkipsOne ==
    FigureRunDone =>
        LET figs == figRun.figures
            extracted == Extracted(figRun)
            ok == Downloaded(figRun)
        IN  /\ Len(figs) = Len(ok)
            /\ \A m \in 1..Len(figs) :
                /\ figs[m].image_url = extracted[figRun.kept[ok[m]]].url
                /\ figs[m].local_path # NoPath
                /\ figs[m].local_path = CachePath(figs[m].image_url, figRun.paper_id, ok[m] - 1)
                /\ figs[m].local_path \in figFiles
            /\ \A k \in 1..Len(figRun.kept) :
                figRun.outcomes[k] # "ok" =>
                    \A m \in 1..Len(figs) : ok[m] # k

\* C15 witness: of three figures the second failed to download; the first
\* and the third are returned
C15_Witness ==
    /\ FigureRunDone
    /\ Len(figRun.kept) = 3
    /\ figRun.outcomes = <<"ok", "fail", "ok">>
    /\ Len(figRun.figures) = 2
    /\ figRun.figures[2].local_path.index = 2

-----------------------------------------------------------------------------
(* The workflow: main.py:71-184, with scrape_papers' browser handling
   (scraper.py:36-131) and cleanup_images (scraper.py:977-988) *)

MaxDates == 2       \* days of the longest date range
MaxRunPapers == 1   \* Papers one feed page yields
MaxCleanups == 2    \* cleanup_images calls on the papers of one run
MaxLaunches == 3    \* launch attempts the model follows

NoRange == [norange |-> TRUE]

\* DateRange(start, end) with start <= end; days are numbered
DateRanges == [start : {1}, end : 1..MaxDates]

\* DateRange.get_dates
get_dates(range) == [i \in 1..(range.end - range.start + 1) |-> range.start + i - 1]

\* config.filter and config.sorting
Configs ==
    [set_threshold : BOOLEAN, relevance_threshold : {0, 50},
     order : {"relevance_desc", "dom_order"}]

Relevance(score) ==
    [relevance_score |-> score, thumbs_up |-> 0, read_by |-> 0, category |-> ""]

\* A Paper as scrape_papers returns it, with one downloaded teaser figure
RunPaper(arxiv_id, relevance) ==
    [arxiv_id |-> arxiv_id,
     paper_relevance |-> relevance,
     teaser_figures |-> <<[image_url |-> SrcPlain, caption |-> <<"F">>,
                           local_path |-> CachePath(SrcPlain, arxiv_id, 0)]>>]

FeedPapers ==
    {RunPaper("1234.5678", Relevance(80)), RunPaper("2401.00001", Relevance(10)),
     RunPaper("1234.5678", NoRelevance)}

\* What the extraction and assembly of one feed page may yield
PageResults == UNION {[1..n -> FeedPapers] : n \in 0..MaxRunPapers}

\* the local_path of every figure of every paper
LocalPaths(ps) ==
    UNION {{ps[i].teaser_figures[k].local_path : k \in 1..Len(ps[i].teaser_figures)} :
            i \in 1..Len(ps)}

\* What playwright.chromium.launch may do: return a browser, raise the
\* PlaywrightError of a missing runtime, raise another PlaywrightError,
\* raise something else
LaunchOutcomes == {"ok", "missing", "playwright_error", "other_error"}

\* mutant: a missing runtime is always answered by an install and a retry
Mut_retry_whenever_missing(attempted, err) == err = "missing"

\* scraper.py:108-112; an error that is not a PlaywrightError is not caught
should_retry(attempted, err) == ~attempted /\ err = "missing"

\* mutant: the finally block closes nothing
Mut_finally_leaks(browsers) == browsers

\* scraper.py:94-98: the browsers open after the finally block
Finally(browsers) == IF browsers > 0 THEN browsers - 1 ELSE browsers

\* mutant: an error of one date ends the run
Mut_date_error_escapes(cause) == "raise"

\* main.py:94-96
OnDateError(cause) == "continue"

\* main.py:113
PassesThreshold(p, cfg) ==
    /\ p.paper_relevance # NoRelevance
    /\ p.paper_relevance.relevance_score >= cfg.relevance_threshold

\* main.py:111-116
FilterPapers(ps, cfg) ==
    IF cfg.set_threshold
    THEN SelectSeq(ps, LAMBDA p : PassesThreshold(p, cfg))
    ELSE ps

\* the sort key of the relevance orders
RelevanceKey(p) ==
    IF p.paper_relevance # NoRelevance THEN p.paper_relevance.relevance_score ELSE -999999

\* sorted(papers, key, reverse=True): stable, equal keys keep their order
RECURSIVE SortedDesc(_)
SortedDesc(ps) ==
    IF ps = <<>> THEN <<>>
    ELSE LET top == CHOOSE i \in 1..Len(ps) :
                        /\ \A k \in 1..Len(ps) : RelevanceKey(ps[k]) <= RelevanceKey(ps[i])
                        /\ \A k \in 1..(i - 1) : RelevanceKey(ps[k]) < RelevanceKey(ps[i])
             rest == [k \in 1..(Len(ps) - 1) |-> IF k < top THEN ps[k] ELSE ps[k + 1]]
         IN  <<ps[top]>> \o SortedDesc(rest)

\* main.py:186-248
_sort_papers(ps, cfg) ==
    IF cfg.order = "dom_order" THEN ps ELSE SortedDesc(ps)

\* mutant: deleting a file that is already missing raises
Mut_cleanup_raises_on_missing(files, ps, stuck) ==
    [files |-> files \ (LocalPaths(ps) \ stuck),
     failed |-> LocalPaths(ps) \cap files \cap stuck,
     raised |-> ~(LocalPaths(ps) \subseteq files)]

\* cleanup_images(papers): every local_path that exists is unlinked; stuck
\* holds the files whose unlink raises, which is logged
cleanup_images(files, ps, stuck) ==
    [files |-> files \ (LocalPaths(ps) \ stuck),
     failed |-> LocalPaths(ps) \cap files \cap stuck,
     raised |-> FALSE]

InDateMode == date_range # NoRange

\* the pages the run scrapes: one per date, or the base URL (page 0)
RunPages == IF InDateMode THEN get_dates(date_range) ELSE <<0>>

\* check_and_post_papers(max_papers, date_range) is called
StartRun ==
    /\ runPc = "idle"
    /\ \E range \in DateRanges \cup {NoRange}, cfg \in Configs :
        /\ date_range' = range
        /\ config' = cfg
    /\ di' = 1
    /\ runPc' = "loop"
    /\ UNCHANGED <<scrapeVars, postVars, pageVars, relVars, figVars>>
    /\ UNCHANGED <<install_attempted, launches, installs, launchErr, openBrowsers,
                   contextOpen, scrapeOut, scrapeLog, all_papers, runPapers, cacheFiles, downloaded, unlinkFailed, cleanups, lastCleanup>>

\* main.py:91 / 102: scrape_papers is called for the next page
ScrapeCall ==
    /\ runPc = "loop"
    /\ di <= Len(RunPages)
    /\ install_attempted' = FALSE
    /\ launches' = 0
    /\ installs' = 0
    /\ launchErr' = "none"
    /\ scrapeOut' = NoCall
    /\ runPc' = "launch"
    /\ UNCHANGED <<scrapeVars, postVars, pageVars, relVars, figVars>>
    /\ UNCHANGED <<date_range, config, di, openBrowsers, contextOpen, scrapeLog,
                   all_papers, runPapers, cacheFiles, downloaded,
                   unlinkFailed, cleanups, lastCleanup>>

\* scraper.py:105-117: one pass of _launch_browser's loop up to the install
LaunchAttempt ==
    /\ runPc = "launch"
    /\ launches < MaxLaunches
    /\ launches' = launches + 1
    /\ \E outcome \in LaunchOutcomes :
        /\ launchErr' = IF outcome = "ok" THEN "none" ELSE outcome
        /\ IF outcome = "ok"
           THEN /\ openBrowsers' = openBrowsers + 1
                /\ runPc' = "goto"
                /\ UNCHANGED <<install_attempted, scrapeOut>>
           ELSE IF should_retry(install_attempted, outcome)
                THEN /\ install_attempted' = TRUE
                     /\ runPc' = "install"
                     /\ UNCHANGED <<openBrowsers, scrapeOut>>
                ELSE /\ scrapeOut' = [raised |-> TRUE, cause |-> "launch",
                                      papers |-> <<>>]
                     /\ runPc' = "exit"
                     /\ UNCHANGED <<openBrowsers, install_attempted>>
    /\ UNCHANGED <<scrapeVars, postVars, pageVars, relVars, figVars>>
    /\ UNCHANGED <<date_range, config, di, installs, contextOpen, scrapeLog,
                   all_papers, runPapers, cacheFiles, downloaded,
                   unlinkFailed, cleanups, lastCleanup>>

\* scraper.py:119-131: _install_playwright_browsers
InstallRuntime ==
    /\ runPc = "install"
    /\ installs' = installs + 1
    /\ \E ok \in BOOLEAN :
        /\ launchErr' = IF ok THEN "none" ELSE "install_failed"
        /\ IF ok
           THEN /\ runPc' = "launch"
                /\ UNCHANGED scrapeOut
           ELSE /\ scrapeOut' = [raised |-> TRUE, cause |-> "install", papers |-> <<>>]
                /\ runPc' = "exit"
    /\ UNCHANGED <<scrapeVars, postVars, pageVars, relVars, figVars>>
    /\ UNCHANGED <<date_range, config, di, install_attempted, launches, openBrowsers,
                   contextOpen, scrapeLog, all_papers, runPapers, cacheFiles, downloaded, unlinkFailed, cleanups, lastCleanup>>

\* scraper.py:42-74: the context and the page are opened, the page is
\* loaded; a wait_for_selector that times out is logged and passed over
Navigate ==
    /\ runPc = "goto"
    /\ contextOpen' = TRUE
    /\ \E ok \in BOOLEAN :
        IF ok
        THEN /\ runPc' = "page"
             /\ UNCHANGED scrapeOut
        ELSE /\ scrapeOut' = [raised |-> TRUE, cause |-> "goto", papers |-> <<>>]
             /\ runPc' = "exit"
    /\ UNCHANGED <<scrapeVars, postVars, pageVars, relVars, figVars>>
    /\ UNCHANGED <<date_range, config, di, install_attempted, launches, installs,
                   launchErr, openBrowsers, scrapeLog, all_papers, runPapers,
                   cacheFiles, downloaded, unlinkFailed, cleanups, lastCleanup>>

\* scraper.py:76-92: the papers of the page are extracted and assembled,
\* their figures downloaded; the script of the export may raise
ExtractPage ==
    /\ runPc = "page"
    /\ \/ /\ scrapeOut' = [raised |-> TRUE, cause |-> "extract", papers |-> <<>>]
          /\ UNCHANGED <<cacheFiles, downloaded>>
       \/ \E ps \in PageResults :
            /\ scrapeOut' = [raised |-> FALSE, cause |-> "none", papers |-> ps]
            /\ cacheFiles' = cacheFiles \cup LocalPaths(ps)
            /\ downloaded' = downloaded \cup LocalPaths(ps)
    /\ runPc' = "exit"
    /\ UNCHANGED <<scrapeVars, postVars, pageVars, relVars, figVars>>
    /\ UNCHANGED <<date_range, config, di, install_attempted, launches, installs,
                   launchErr, openBrowsers, contextOpen, scrapeLog, all_papers, runPapers,
                   unlinkFailed, cleanups, lastCleanup>>

\* what leaving scrape_papers does to the browser and to the log
LeaveScrape ==
    /\ openBrowsers' = Finally(openBrowsers)
    /\ contextOpen' = FALSE
    /\ scrapeLog' = Append(scrapeLog, [page |-> RunPages[di], raised |-> scrapeOut.raised,
                                       cause |-> scrapeOut.cause,
                                       papers |-> scrapeOut.papers])
    /\ install_attempted' = FALSE
    /\ launches' = 0
    /\ installs' = 0
    /\ launchErr' = "none"
    /\ scrapeOut' = NoCall

\* scraper.py:92-98 and main.py:92-93 / 102: scrape_papers returns
ScrapeReturns ==
    /\ runPc = "exit"
    /\ ~scrapeOut.raised
    /\ LeaveScrape
    /\ IF InDateMode
       THEN /\ all_papers' = all_papers \o scrapeOut.papers
            /\ di' = di + 1
            /\ runPc' = "loop"
            /\ UNCHANGED runPapers
       ELSE /\ runPapers' = scrapeOut.papers
            /\ runPc' = "check"
            /\ UNCHANGED <<all_papers, di>>
    /\ UNCHANGED <<scrapeVars, postVars, pageVars, relVars, figVars>>
    /\ UNCHANGED <<date_range, config, cacheFiles, downloaded,
                   unlinkFailed, cleanups, lastCleanup>>

\* scraper.py:94-98 and main.py:94-96 / 182-184: scrape_papers raises
ScrapeRaises ==
    /\ runPc = "exit"
    /\ scrapeOut.raised
    /\ LeaveScrape
    /\ IF InDateMode /\ OnDateError(scrapeOut.cause) = "continue"
       THEN /\ di' = di + 1
            /\ runPc' = "loop"
       ELSE /\ runPc' = "raised"
            /\ UNCHANGED di
    /\ UNCHANGED <<scrapeVars, postVars, pageVars, relVars, figVars>>
    /\ UNCHANGED <<date_range, config, all_papers, runPapers, cacheFiles, downloaded, unlinkFailed, cleanups, lastCleanup>>

\* main.py:98: the date loop is over
DatesDone ==
    /\ runPc = "loop"
    /\ InDateMode
    /\ di > Len(RunPages)
    /\ runPapers' = all_papers
    /\ runPc' = "check"
    /\ UNCHANGED <<scrapeVars, postVars, pageVars, relVars, figVars>>
    /\ UNCHANGED <<date_range, config, di, install_attempted, launches, installs,
                   launchErr, openBrowsers, contextOpen, scrapeOut, scrapeLog, all_papers,
                   cacheFiles, downloaded, unlinkFailed, cleanups,
                   lastCleanup>>

\* main.py:104-123: the papers are filtered and sorted; with none found or
\* none left the workflow returns
FilterAndSort ==
    /\ runPc = "check"
    /\ IF runPapers = <<>>
       THEN /\ runPc' = "returned"
            /\ UNCHANGED runPapers
       ELSE LET kept == FilterPapers(runPapers, config)
            IN  IF kept = <<>>
                THEN /\ runPapers' = kept
                     /\ runPc' = "returned"
                ELSE /\ runPapers' = _sort_papers(kept, config)
                     /\ runPc' = "process"
    /\ UNCHANGED <<scrapeVars, postVars, pageVars, relVars, figVars>>
    /\ UNCHANGED <<date_range, config, di, install_attempted, launches, installs,
                   launchErr, openBrowsers, contextOpen, scrapeOut, scrapeLog, all_papers,
                   cacheFiles, downloaded, unlinkFailed, cleanups,
                   lastCleanup>>

\* main.py:130-166: every paper is summarised and posted; a paper whose
\* processing raises or whose post fails is passed over.  Neither the
\* papers list nor the cache files are touched (only the count that is
\* logged differs).
ProcessPapers ==
    /\ runPc = "process"
    /\ runPc' = "cleanup"
    /\ UNCHANGED <<scrapeVars, postVars, pageVars, relVars, figVars>>
    /\ UNCHANGED <<date_range, config, di, install_attempted, launches, installs,
                   launchErr, openBrowsers, contextOpen, scrapeOut, scrapeLog, all_papers,
                   runPapers, cacheFiles, downloaded, unlinkFailed, cleanups, lastCleanup>>

\* what a cleanup_images(runPapers) call leaves behind
CleanupCall ==
    \E stuck \in SUBSET (LocalPaths(runPapers) \cap cacheFiles) :
        LET r == cleanup_images(cacheFiles, runPapers, stuck)
        IN  /\ cacheFiles' = r.files
            /\ unlinkFailed' = unlinkFailed \cup r.failed
            /\ cleanups' = cleanups + 1
            /\ lastCleanup' = [before |-> cacheFiles, after |-> r.files,
                               targets |-> LocalPaths(runPapers), failed |-> r.failed,
                               raised |-> r.raised]

\* main.py:171: the workflow cleans up and returns
CleanupImages ==
    /\ runPc = "cleanup"
    /\ CleanupCall
    /\ runPc' = "returned"
    /\ UNCHANGED <<scrapeVars, postVars, pageVars, relVars, figVars>>
    /\ UNCHANGED <<date_range, config, di, install_attempted, launches, installs,
                   launchErr, openBrowsers, contextOpen, scrapeOut, scrapeLog, all_papers,
                   runPapers, downloaded>>

\* cleanup_images is called once more on the same papers
CleanupImagesAgain ==
    /\ runPc = "returned"
    /\ cleanups >= 1
    /\ cleanups < MaxCleanups
    /\ CleanupCall
    /\ UNCHANGED <<scrapeVars, postVars, pageVars, relVars, figVars>>
    /\ UNCHANGED <<runPc, date_range, config, di, install_attempted, launches, installs,
                   launchErr, openBrowsers, contextOpen, scrapeOut, scrapeLog, all_papers,
                   runPapers, downloaded>>

NextRun ==
    \/ StartRun
    \/ ScrapeCall
    \/ LaunchAttempt
    \/ InstallRuntime
    \/ Navigate
    \/ ExtractPage
    \/ ScrapeReturns
    \/ ScrapeRaises
    \/ DatesDone
    \/ FilterAndSort
    \/ ProcessPapers
    \/ CleanupImages
    \/ CleanupImagesAgain

SpecRun == Init /\ [][NextRun]_vars

-----------------------------------------------------------------------------
(* Properties of the workflow *)

RunStarted == runPc # "idle"

DateRun == RunStarted /\ InDateMode

SinglePageRun == RunStarted /\ ~InDateMode

\* the scraping of the run is over and the workflow went on
ScrapingOver == runPc \in {"check", "process", "cleanup", "returned"}

\* the papers of the scrapes that returned, in the order of the scrapes
RECURSIVE PapersOf(_)
PapersOf(log) ==
    IF log = <<>> THEN <<>>
    ELSE PapersOf(SubSeq(log, 1, Len(log) - 1)) \o log[Len(log)].papers

\* C16 as stated: after cleanup_images no file is left at any local_path of
\* the papers, nothing was raised, and a second call changes nothing.
C16_CleanupLeavesNoFile ==
    lastCleanup # NoCall =>
        /\ lastCleanup.targets \cap lastCleanup.after = {}
        /\ ~lastCleanup.raised
        /\ cleanups >= 2 => lastCleanup.after = lastCleanup.before

\* C16: cleanup_images never raises, tolerates files that are already
\* missing, touches no other file, and leaves at a local_path of the papers
\* only a file whose deletion failed (which is logged); a call that finds
\* none of the files changes nothing.
C16_CleanupDeletesUnlessUnlinkFails ==
    lastCleanup # NoCall =>
        /\ ~lastCleanup.raised
        /\ lastCleanup.after = cacheFiles
        /\ lastCleanup.after \subseteq lastCleanup.before
        /\ lastCleanup.before \ lastCleanup.after \subseteq lastCleanup.targets
        /\ lastCleanup.targets \cap lastCleanup.after = lastCleanup.failed
        /\ lastCleanup.failed \subseteq unlinkFailed
        /\ lastCleanup.targets \cap lastCleanup.before = {} =>
                lastCleanup.after = lastCleanup.before

\* C16 witness: a second call found every file already missing, raised
\* nothing and changed nothing
C16_Witness ==
    /\ cleanups = 2
    /\ lastCleanup.targets # {}
    /\ lastCleanup.targets \cap lastCleanup.before = {}
    /\ lastCleanup.after = lastCleanup.before
    /\ ~lastCleanup.raised

\* C16 witness: two papers of one call share a local_path; the file is gone
C16_WitnessShared ==
    /\ cleanups = 1
    /\ Len(runPapers) = 2
    /\ LocalPaths(<<runPapers[1]>>) = LocalPaths(<<runPapers[2]>>)
    /\ lastCleanup.targets \cap lastCleanup.before # {}
    /\ lastCleanup.targets \cap cacheFiles = {}

\* C17 as stated: once the workflow has returned normally, every figure file
\* the scrapes of the run downloaded is deleted (but for a file whose
\* deletion failed), whatever the filter and sort settings.
C17_DownloadedFilesDeleted ==
    runPc = "returned" => (downloaded \cap cacheFiles) \subseteq unlinkFailed

\* C18: one _launch_browser call makes at most two launch attempts and at
\* most one install; the install follows a missing-runtime error of the
\* first attempt only and is followed by exactly one more attempt; every
\* other launch error, a failed install and any error of the second
\* attempt leave scrape_papers as an exception.
C18_LaunchAtMostTwice ==
    /\ launches <= 2
    /\ installs <= 1
    /\ installs <= launches
    /\ runPc = "launch" => launches = installs /\ launches <= 1
    /\ runPc = "install" =>
            launches = 1 /\ installs = 0 /\ install_attempted /\ launchErr = "missing"
    /\ launches = 2 => installs = 1 /\ install_attempted /\ runPc \in {"goto", "page", "exit"}
    /\ launchErr \in {"playwright_error", "other_error", "install_failed"} =>
            runPc = "exit" /\ scrapeOut.raised
    /\ launchErr = "missing" /\ launches = 2 => runPc = "exit" /\ scrapeOut.raised
    /\ launchErr = "install_failed" => scrapeOut.cause = "install" /\ launches = 1
    /\ (runPc = "exit" /\ scrapeOut.raised /\ scrapeOut.cause \in {"launch", "install"}) =>
            openBrowsers = 0

\* C18 witness: the runtime was installed, the second attempt reported it
\* missing again, and the error left scrape_papers
C18_Witness ==
    /\ runPc = "exit"
    /\ launches = 2
    /\ installs = 1
    /\ launchErr = "missing"
    /\ scrapeOut.raised
    /\ scrapeOut.cause = "launch"

\* C18 witness: the launch succeeded after the install
C18_WitnessRetryOk ==
    /\ runPc = "goto"
    /\ launches = 2
    /\ installs = 1
    /\ openBrowsers = 1

\* C19: in a date-range run the finished scrapes are those of the first
\* dates of the range, one per date in ascending order, every date being
\* scraped before the workflow goes on; never is more than one browser
\* open, and none, nor a context, is open between two scrapes or after them.
C19_OneDateAtATime ==
    DateRun =>
        LET dates == get_dates(date_range)
        IN  /\ \A i \in 1..(Len(dates) - 1) : dates[i] < dates[i + 1]
            /\ Len(scrapeLog) <= Len(dates)
            /\ \A i \in 1..Len(scrapeLog) : scrapeLog[i].page = dates[i]
            /\ Len(scrapeLog) = di - 1
            /\ ScrapingOver => Len(scrapeLog) = Len(dates)
            /\ openBrowsers <= 1
            /\ runPc \in {"loop", "launch", "install"} =>
                    openBrowsers = 0 /\ ~contextOpen
            /\ ScrapingOver => openBrowsers = 0 /\ ~contextOpen

\* C19 witness: the scrape of the first date raised while its page was
\* loading, the scrape of the second date returned, no browser is open
C19_Witness ==
    /\ DateRun
    /\ Len(scrapeLog) = 2
    /\ scrapeLog[1].raised
    /\ scrapeLog[1].cause = "goto"
    /\ ~scrapeLog[2].raised
    /\ scrapeLog[1].page < scrapeLog[2].page
    /\ openBrowsers = 0

\* C20 as stated: a navigation failure of a feed page never leaves
\* check_and_post_papers as an exception.
C20_PageFailureNeverEscapes ==
    RunStarted =>
        ~(runPc = "raised" /\ scrapeLog[Len(scrapeLog)].cause = "goto")

\* C20: in a date-range run a failed scrape is logged for its date only:
\* the run never raises because of it, the papers of the scrapes that
\* returned are all kept, and every date is scraped; in a run without date
\* range the failure of the one scrape leaves check_and_post_papers as an
\* exception.
C20_DateFailureHandled ==
    /\ DateRun =>
        /\ runPc # "raised"
        /\ all_papers = PapersOf(scrapeLog)
        /\ ScrapingOver => Len(scrapeLog) = Len(get_dates(date_range))
        /\ runPc = "check" => runPapers = all_papers
    /\ SinglePageRun =>
        /\ (Len(scrapeLog) = 1 /\ scrapeLog[1].raised) <=> runPc = "raised"

\* C20 witness: the first date yielded a paper, the scrape of the second
\* date failed to load its page, and the workflow went on with the paper
C20_Witness ==
    /\ DateRun
    /\ runPc = "check"
    /\ Len(scrapeLog) = 2
    /\ ~scrapeLog[1].raised
    /\ scrapeLog[1].papers # <<>>
    /\ scrapeLog[2].raised
    /\ scrapeLog[2].cause = "goto"
    /\ runPapers = scrapeLog[1].papers

\* C20 witness: without date range the failure left the workflow
C20_WitnessSingle ==
    /\ SinglePageRun
    /\ runPc = "raised"
    /\ scrapeLog[1].cause = "goto"

-----------------------------------------------------------------------------
(* C21 *)

\* C21: every Paper the assembler returns with arxiv_id set has
\* arxiv_html_url equal to the HTML URL built from that id, and arxiv_url
\* equal to the metadata's abstract URL when metadata has a non-empty one
\* and to the abstract URL built from the id otherwise; in particular no
\* Paper has arxiv_id set and one of the two URLs unset.
C21_UrlsFollowId ==
    AssemblyDone /\ lastAsm.paper # NoPaper /\ Truthy(lastAsm.paper.arxiv_id) =>
        LET P == lastAsm.paper
            canonical == Get(lastAsm.metadata, "abs_url")
        IN  /\ P.arxiv_html_url = html_url_of(P.arxiv_id)
            /\ P.arxiv_url = IF Truthy(canonical)
                             THEN canonical
                             ELSE abs_url_of(P.arxiv_id)

-----------------------------------------------------------------------------
(* C24 *)

\* C24: with filter.set_threshold true and filter.relevance_threshold 0 the
\* relevance filter removes no paper: every paper the scrapes returned is
\* in the list that goes on to sorting and processing.
C24_ZeroThresholdKeepsAll ==
    /\ runPc \in {"process", "cleanup", "returned"}
    /\ config.set_threshold
    /\ config.relevance_threshold = 0
    => /\ Len(runPapers) = Len(PapersOf(scrapeLog))
       /\ Range(runPapers) = Range(PapersOf(scrapeLog))

-----------------------------------------------------------------------------
(* C28 *)

\* the texts that are the decimal form of an integer in [0, 1000)
CandidateTexts == {ToString(n) : n \in 0..999}

CandidateValue(text) == CHOOSE n \in 0..999 : ToString(n) = text

\* the positions, in traversal order, of the elements of the i-th ancestor
\* that show a candidate: an integer in [0, 1000) (none of which is a year)
CandidatesAt(chain, i) ==
    LET els == ElementsAt(chain, i)
    IN  SelectSeq([k \in 1..Len(els) |-> k], LAMBDA k : els[k] \in CandidateTexts)

\* whether the contiguous triple of candidates starting at the j-th one fits
TripleFits(chain, i, j) ==
    LET els == ElementsAt(chain, i)
        cand == CandidatesAt(chain, i)
    IN  /\ CandidateValue(els[cand[j]]) \in 0..100
        /\ CandidateValue(els[cand[j + 1]]) \in 0..50
        /\ CandidateValue(els[cand[j + 2]]) \in 0..1000

FittingStarts(chain, i) ==
    {j \in 1..(Len(CandidatesAt(chain, i)) - 2) : TripleFits(chain, i, j)}

\* C28: the triple chosen is the first contiguous triple, in traversal order
\* of the filtered candidates, that fits the three ranges, taken at the
\* lowest ancestor (at most 15 above the anchor) holding such a triple; no
\* later triple replaces it and no higher ancestor is looked at.
C28_FirstTripleLowestLevel ==
    relPc # "idle" /\ relRun.located.found =>
        LET chain == relRun.chain
            located == relRun.located
            cand == CandidatesAt(chain, located.level)
            els == ElementsAt(chain, located.level)
        IN  /\ located.level \in 1..MaxAscents
            /\ \A i \in 1..(located.level - 1) : FittingStarts(chain, i) = {}
            /\ Len(located.tested) = located.level
            /\ \E j \in FittingStarts(chain, located.level) :
                /\ \A k \in FittingStarts(chain, located.level) : j <= k
                /\ located.els = <<cand[j], cand[j + 1], cand[j + 2]>>
                /\ located.relevance["relevance_score"] = CandidateValue(els[cand[j]])
                /\ located.relevance["thumbs_up"] = CandidateValue(els[cand[j + 1]])
                /\ located.relevance["read_by"] = CandidateValue(els[cand[j + 2]])

\* C28 witness: the ancestor holds two fitting triples, the first candidate
\* opens none, and the earlier of the two was chosen
C28_Witness ==
    /\ relPc # "idle"
    /\ relRun.located.found
    /\ ElementsAt(relRun.chain, relRun.located.level) = <<"300", "0", "0", "45">>
    /\ relRun.located.els = <<2, 3, 4>>

\* C28 witness: the card and a higher ancestor both hold a fitting triple,
\* a different one, and the card's was chosen
C28_WitnessLevel ==
    /\ relPc # "idle"
    /\ relRun.located.found
    /\ relRun.chain.d = 1
    /\ relRun.chain.inner = <<"0", "0", "0", "45">>
    /\ relRun.chain.outer = <<"0", "0", "0">>
    /\ relRun.located.level = 1
    /\ relRun.located.els = <<1, 2, 3>>
    /\ Cardinality(FittingStarts(relRun.chain, 1)) = 2

-----------------------------------------------------------------------------
(* C26 *)

\* C26: the de-duplication is idempotent: applied to its own output it
\* returns that output, the same figures in the same order.
C26_DedupIdempotent ==
    FigureRunDone =>
        LET once == unique_figures(Extracted(figRun))
        IN  unique_figures(once) = once

\* C26 witness: the de-duplication dropped a figure and kept two
C26_Witness ==
    /\ FigureRunDone
    /\ Len(Extracted(figRun)) = 3
    /\ Len(unique_figures(Extracted(figRun))) = 2
    /\ unique_figures(unique_figures(Extracted(figRun))) = unique_figures(Extracted(figRun))

-----------------------------------------------------------------------------
(* The process loop of the workflow: main.py:104-184, with
   LLMClient.process_paper_sync (llm_client.py:168-196) and
   SlackClient.post_paper (slack_client.py:29-60) *)

MaxPostPapers == 2  \* Papers the scrapes of one run emitted
MaxReplies == 3     \* thread replies up to which a failing one is tried

\* Captions as the figure extractors write them: a label the page shows
\* ("Fig. 2: x", "Figure 1: y"), or the default of scraper.py:736 / 882,
\* whose first character "<zu>" stands for the one ideograph it starts with
CapLabelFig == <<"F", "i", "g", ".", " ", "2", ":", " ", "x">>
CapLabelFigure == <<"F", "i", "g", "u", "r", "e", " ", "1", ":", " ", "y">>
CapDefault == <<"<zu>", "1">>

PostFigure(src, caption, id, index) ==
    [image_url |-> src, caption |-> caption, local_path |-> CachePath(src, id, index)]

PostPaper(title, abstract, score, figs) ==
    [title |-> title, authors |-> <<"A. One">>, abstract |-> abstract,
     arxiv_id |-> None, arxiv_url |-> None, arxiv_html_url |-> None,
     github_url |-> None, conference |-> None, submitted_date |-> None,
     categories |-> <<>>, paper_relevance |-> Relevance(score),
     teaser_figures |-> figs, translated_abstract |-> None, summaries |-> EmptyDict]

PostPapers ==
    {PostPaper("A", "Abstract A", 80,
               <<PostFigure(SrcPlain, CapLabelFig, "md5:A", 0),
                 PostFigure(SrcUpper, CapLabelFigure, "md5:A", 1)>>),
     PostPaper("B", "", 10, <<>>),
     PostPaper("C", "Abstract C", 90, <<PostFigure(SrcPlain, CapDefault, "md5:C", 0)>>)}

\* What the scrapes of a run may have emitted: Papers of different titles
EmittedLists ==
    {ps \in UNION {[1..n -> PostPapers] : n \in 1..MaxPostPapers} :
        \A i, j \in DOMAIN ps : i # j => ps[i].title # ps[j].title}

\* config.filter, config.sorting, config.summary.sections (the names) and
\* config.slack.post_elements.teaser_figures
PostConfigs ==
    [set_threshold : BOOLEAN, relevance_threshold : {50}, order : {"relevance_desc"},
     sections : {<<>>, <<"what">>}, teaser_figures : BOOLEAN]

\* What the LLM behind one process_paper_sync call does: whether its
\* answers arrive (a failed call is answered by the fallback of the
\* helper), and whether the call raises, on entry or when the content of
\* the paper is fetched
LLMEnvs ==
    {env \in [raises : {"none", "entry", "content"}, ok : BOOLEAN] :
        env.raises = "entry" => env.ok}

\* llm_client.py:228-255: the translation, the abstract itself on failure
translate_abstract_sync(abstract, ok) == IF ok THEN "ja:" \o abstract ELSE abstract

\* llm_client.py:364-388, on a text given as the sequence of its characters
translate_text_sync(text, ok) == IF ok THEN <<"j", "a", ":">> \o text ELSE text

\* llm_client.py:285-323
generate_summary_sync(section_name, ok) ==
    IF ok THEN "summary:" \o section_name ELSE "[Error generating summary]"

\* figure.caption.startswith('Figure ')
StartsWithFigure(caption) == Take(caption, 7) = <<"F", "i", "g", "u", "r", "e", " ">>

\* mutant: every non-empty caption is translated
Mut_translates_every_caption(caption) == caption # <<>>

\* llm_client.py:193: if figure.caption and not figure.caption.startswith('Figure ')
TranslatesCaption(caption) == caption # <<>> /\ ~StartsWithFigure(caption)

\* llm_client.py:168-196; the Paper is changed in place, so what was done
\* before an exception stays done
process_paper_sync(paper, sections, env) ==
    IF env.raises = "entry"
    THEN [paper |-> paper, raised |-> TRUE]
    ELSE LET p1 == IF paper.abstract # ""
                   THEN [paper EXCEPT !.translated_abstract =
                                        translate_abstract_sync(paper.abstract, env.ok)]
                   ELSE paper
             summaries ==
                [name \in (DOMAIN paper.summaries) \cup Range(sections) |->
                    IF name \in Range(sections)
                    THEN generate_summary_sync(name, env.ok)
                    ELSE paper.summaries[name]]
             figs == paper.teaser_figures
             translated ==
                [i \in 1..Len(figs) |->
                    IF TranslatesCaption(figs[i].caption)
                    THEN [figs[i] EXCEPT !.caption = translate_text_sync(figs[i].caption, env.ok)]
                    ELSE figs[i]]
         IN  IF env.raises = "content"
             THEN [paper |-> p1, raised |-> TRUE]
             ELSE [paper |-> [p1 EXCEPT !.summaries = summaries,
                                        !.teaser_figures = translated],
                   raised |-> FALSE]

\* What Slack does during one post_paper call: how the main message ends
\* (posted, SlackApiError, another exception) and which thread reply, if
\* any, raises something that is not a SlackApiError; before the call,
\* printing the cost of the paper may raise
PostEnvs ==
    {env \in [cost_raises : BOOLEAN, main : {"ok", "slack_error", "other_error"},
              bad : 0..MaxReplies] :
        /\ env.cost_raises => env.main = "ok" /\ env.bad = 0
        /\ env.main # "ok" => env.bad = 0}

\* slack_client.py:62-157: the thread timestamp, None after a SlackApiError;
\* any other exception leaves the method
_post_main_message(paper, outcome, k) ==
    CASE outcome = "ok" -> [ts |-> "ts" \o ToString(k), raised |-> FALSE]
      [] outcome = "slack_error" -> [ts |-> None, raised |-> FALSE]
      [] outcome = "other_error" -> [ts |-> None, raised |-> TRUE]

\* mutant: the thread timestamp is not looked at
Mut_main_never_fails(thread_ts) == FALSE

\* slack_client.py:44-45: if not thread_ts: return False
MainFailed(thread_ts) == ~Truthy(thread_ts)

\* slack_client.py:159-169: one reply per summary, in the order of the dict
_post_summaries(thread_ts, summaries, sections) ==
    LET names == SelectSeq(sections, LAMBDA n : n \in DOMAIN summaries)
    IN  [i \in 1..Len(names) |-> [call |-> "summary", thread_ts |-> thread_ts]]

\* slack_client.py:171-208: one reply per figure of a new local_path
_post_teaser_figures(thread_ts, figures) ==
    LET first == SelectSeq([i \in 1..Len(figures) |-> i],
                           LAMBDA i : \A k \in 1..(i - 1) :
                                figures[k].local_path # figures[i].local_path)
    IN  [i \in 1..Len(first) |-> [call |-> "figure", thread_ts |-> thread_ts]]

\* slack_client.py:29-60: the calls made to Slack, in order, and the result;
\* the body is one try/except Exception that returns False
post_paper(paper, cfg, env, k) ==
    LET main == _post_main_message(paper, env.main, k)
        mainCall == [call |-> "main", thread_ts |-> None]
        replies ==
            (IF DOMAIN paper.summaries # {}
             THEN _post_summaries(main.ts, paper.summaries, cfg.sections) ELSE <<>>)
            \o (IF cfg.teaser_figures /\ paper.teaser_figures # <<>>
                THEN _post_teaser_figures(main.ts, paper.teaser_figures) ELSE <<>>)
        stopped == env.bad \in 1..Len(replies)
    IN  IF main.raised \/ MainFailed(main.ts)
        THEN [result |-> FALSE, raised |-> FALSE, ts |-> main.ts, calls |-> <<mainCall>>]
        ELSE [result |-> ~stopped, raised |-> FALSE, ts |-> main.ts,
              calls |-> <<mainCall>> \o (IF stopped THEN SubSeq(replies, 1, env.bad)
                                         ELSE replies)]

\* mutant: the exception of one paper ends the workflow
Mut_paper_error_escapes(step) == "raise"

\* main.py:164-166: except Exception: log; continue
OnPaperError(step) == "continue"

\* main.py:104-127: the papers are checked, filtered and sorted
StartProcessing ==
    /\ postPc = "idle"
    /\ \E ps \in EmittedLists, cfg \in PostConfigs :
        LET kept == FilterPapers(ps, cfg)
        IN  /\ emitted' = ps
            /\ procCfg' = cfg
            /\ procPapers' = _sort_papers(kept, cfg)
            /\ postPc' = IF kept = <<>> THEN "returned" ELSE "llm"
    /\ pidx' = 1
    /\ UNCHANGED <<steps, lastPost>>
    /\ UNCHANGED <<scrapeVars, relVars, figVars, runVars, pageVars>>

\* what the except clause of the loop does after a step of a paper raised
PaperFailed(step, llm) ==
    /\ steps' = (IF step = "llm" THEN Append(steps, [paper |-> pidx, llm |-> llm, post |-> "skipped"])
                 ELSE [steps EXCEPT ![Len(steps)].post = "skipped"])
    /\ IF OnPaperError(step) = "continue"
       THEN /\ pidx' = pidx + 1
            /\ postPc' = "llm"
       ELSE /\ postPc' = "raised"
            /\ UNCHANGED pidx

\* main.py:131-144: the next paper is handed to the LLM client
LLMStep ==
    /\ postPc = "llm"
    /\ pidx <= Len(procPapers)
    /\ \E env \in LLMEnvs :
        LET r == process_paper_sync(procPapers[pidx], procCfg.sections, env)
        IN  /\ procPapers' = [procPapers EXCEPT ![pidx] = r.paper]
            /\ IF r.raised
               THEN PaperFailed("llm", "raised")
               ELSE /\ steps' = Append(steps, [paper |-> pidx, llm |-> "returned",
                                               post |-> "pending"])
                    /\ postPc' = "post"
                    /\ UNCHANGED pidx
    /\ UNCHANGED <<emitted, procCfg, lastPost>>
    /\ UNCHANGED <<scrapeVars, relVars, figVars, runVars, pageVars>>

\* main.py:146-162: the cost of the paper is printed and the paper posted
PostStep ==
    /\ postPc = "post"
    /\ \E env \in PostEnvs :
        IF env.cost_raises
        THEN /\ PaperFailed("post", "returned")
             /\ UNCHANGED lastPost
        ELSE LET r == post_paper(procPapers[pidx], procCfg, env, pidx)
             IN  /\ lastPost' = [paper |-> pidx, main |-> env.main, ts |-> r.ts,
                                 calls |-> r.calls, result |-> r.result,
                                 raised |-> r.raised, bad |-> env.bad]
                 /\ steps' = [steps EXCEPT ![Len(steps)].post = "attempted"]
                 /\ pidx' = pidx + 1
                 /\ postPc' = "llm"
    /\ UNCHANGED <<emitted, procCfg, procPapers>>
    /\ UNCHANGED <<scrapeVars, relVars, figVars, runVars, pageVars>>

\* main.py:168-180: the loop is over, the workflow cleans up and returns
FinishProcessing ==
    /\ postPc = "llm"
    /\ pidx > Len(procPapers)
    /\ postPc' = "returned"
    /\ UNCHANGED <<emitted, procCfg, procPapers, pidx, steps, lastPost>>
    /\ UNCHANGED <<scrapeVars, relVars, figVars, runVars, pageVars>>

NextPost ==
    \/ StartProcessing
    \/ LLMStep
    \/ PostStep
    \/ FinishProcessing

SpecPost == Init /\ [][NextPost]_vars

-----------------------------------------------------------------------------
(* Properties of the process loop *)

\* the Paper of that title as the scraper emitted it
EmittedAs(p) == emitted[CHOOSE i \in 1..Len(emitted) : emitted[i].title = p.title]

ScrapedFields ==
    {"title", "authors", "abstract", "arxiv_id", "arxiv_url", "arxiv_html_url",
     "github_url", "conference", "submitted_date", "categories", "paper_relevance"}

\* the fields the scraper filled are those the scraper emitted, and so are
\* the figures but for their captions
SameButCaptions(p, e) ==
    /\ \A f \in ScrapedFields : p[f] = e[f]
    /\ Len(p.teaser_figures) = Len(e.teaser_figures)
    /\ \A i \in 1..Len(p.teaser_figures) :
        /\ p.teaser_figures[i].image_url = e.teaser_figures[i].image_url
        /\ p.teaser_figures[i].local_path = e.teaser_figures[i].local_path

\* C22 as stated: the downstream stages change nothing of a Paper but
\* translated_abstract and summaries; the figures, with each figure's
\* caption, image_url and local_path, are as the scraper emitted them.
C22_OnlyExternalFieldsChange ==
    \A k \in 1..Len(procPapers) :
        /\ SameButCaptions(procPapers[k], EmittedAs(procPapers[k]))
        /\ procPapers[k].teaser_figures = EmittedAs(procPapers[k]).teaser_figures

\* C22: the downstream stages change translated_abstract, summaries and the
\* caption of every figure whose caption is non-empty and does not start
\* with 'Figure ', which the LLM stage replaces by its translation (it is
\* left as it is when the translation fails); every other field, the number
\* and order of the figures, each image_url and local_path, and every
\* caption starting with 'Figure ' are as the scraper emitted them.
C22_OnlyExternalFieldsAndCaptionsChange ==
    \A k \in 1..Len(procPapers) :
        LET p == procPapers[k]
            e == EmittedAs(p)
        IN  /\ SameButCaptions(p, e)
            /\ \A i \in 1..Len(p.teaser_figures) :
                LET was == e.teaser_figures[i].caption
                    is == p.teaser_figures[i].caption
                IN  /\ was = <<>> \/ StartsWithFigure(was) => is = was
                    /\ is \in {was, translate_text_sync(was, TRUE)}
                    /\ is # was => steps[k].llm = "returned"

\* C22 witness: the workflow returned after it posted a paper with two
\* figures; the caption of the first is now its translation, the second,
\* which starts with 'Figure ', is unchanged
C22_Witness ==
    /\ postPc = "returned"
    /\ \E k \in 1..Len(procPapers) :
        /\ steps[k].post = "attempted"
        /\ procPapers[k].translated_abstract = "ja:Abstract A"
        /\ procPapers[k].teaser_figures[1].caption = <<"j", "a", ":">> \o CapLabelFig
        /\ procPapers[k].teaser_figures[2].caption = CapLabelFigure

\* C23: posting a paper is attempted only after the LLM processing of that
\* paper returned; an exception in a step of one paper skips the rest of
\* that paper's steps, the papers are handled one after the other in the
\* order of the list, and the workflow does not raise.
C23_ErrorSkipsOnePaper ==
    /\ postPc # "raised"
    /\ Len(steps) <= Len(procPapers)
    /\ \A k \in 1..Len(steps) :
        /\ steps[k].paper = k
        /\ steps[k].post \in {"attempted", "pending"} => steps[k].llm = "returned"
        /\ steps[k].llm = "raised" => steps[k].post = "skipped"
        /\ k < Len(steps) => steps[k].post # "pending"
    /\ lastPost # NoCall =>
        /\ lastPost.paper <= Len(steps)
        /\ steps[lastPost.paper].llm = "returned"
    /\ postPc = "returned" /\ Len(steps) > 0 =>
        /\ Len(steps) = Len(procPapers)
        /\ steps[Len(steps)].post # "pending"

\* C23 witness: the LLM step of the first paper raised, the second paper
\* was posted, and the workflow returned
C23_Witness ==
    /\ postPc = "returned"
    /\ Len(steps) = 2
    /\ steps[1].llm = "raised"
    /\ steps[1].post = "skipped"
    /\ steps[2].llm = "returned"
    /\ steps[2].post = "attempted"
    /\ lastPost # NoCall
    /\ lastPost.paper = 2

\* C25: post_paper posts thread replies only after the main message was
\* posted and returned a thread timestamp, each reply into that thread;
\* when the main message fails it returns False and posts no reply; it
\* never raises.
C25_RepliesFollowMain ==
    lastPost # NoCall =>
        /\ ~lastPost.raised
        /\ Len(lastPost.calls) >= 1
        /\ lastPost.calls[1].call = "main"
        /\ \A i \in 2..Len(lastPost.calls) :
            /\ lastPost.calls[i].call \in {"summary", "figure"}
            /\ lastPost.main = "ok"
            /\ Truthy(lastPost.calls[i].thread_ts)
            /\ lastPost.calls[i].thread_ts = lastPost.ts
        /\ lastPost.main # "ok" =>
            /\ lastPost.result = FALSE
            /\ Len(lastPost.calls) = 1

\* C25 witness: the main message of a paper with a summary and figures
\* failed with a SlackApiError; post_paper returned False after that one call
C25_Witness ==
    /\ lastPost # NoCall
    /\ lastPost.main = "slack_error"
    /\ lastPost.result = FALSE
    /\ ~lastPost.raised
    /\ Len(lastPost.calls) = 1
    /\ DOMAIN procPapers[lastPost.paper].summaries # {}
    /\ procPapers[lastPost.paper].teaser_figures # <<>>
    /\ procCfg.teaser_figures

\* C25 witness: the main message was posted and three replies followed
C25_WitnessReplies ==
    /\ lastPost # NoCall
    /\ lastPost.main = "ok"
    /\ lastPost.result = TRUE
    /\ Len(lastPost.calls) = 4

-----------------------------------------------------------------------------
(* The script of _extract_all_papers on a page of paper cards:
   scraper.py:136-422, with the dialogs it opens and closes *)

MaxCards == 2       \* paper cards on one page

\* a citation of the preprint server that lacks the volume field
BibArxivNoVolume ==
    [kind |-> "@article",
     fields |-> << <<"author", Authors2>>, <<"title", "Paper about W">>,
                   <<"journal", "arXiv">>, <<"year", "2025">> >>]

\* What a card holds behind its share buttons: as Entry, with the step of
\* the pass at which an exception is thrown in place of throws: "share"
\* (the click on the share button), "after_share" (the share dialog is
\* open), "after_bibtex" (the citation dialog is open too), "none"
CardEntry(ctl, bib, throwAt, link) ==
    [ctl |-> ctl, bib |-> bib, throwAt |-> throwAt, link |-> link]

CardEntries ==
    {CardEntry(TRUE, BibArxiv("1234.5678"), "none", None),
     CardEntry(TRUE, BibConf, "none", "https://openreview.net/forum?id=Y"),
     CardEntry(TRUE, BibArxivNoVolume, "none", None),
     CardEntry(TRUE, BibNoTitle, "none", None),
     CardEntry(FALSE, BibConf, "none", None),
     CardEntry(TRUE, NoBib, "none", None),
     CardEntry(TRUE, BibConf, "share", None),
     CardEntry(TRUE, BibConf, "after_share", None),
     CardEntry(TRUE, BibConf, "after_bibtex", None)}

\* A card: the number of its share buttons ("each paper has 2 buttons",
\* scraper.py:144), what is behind them, and the texts of the span and div
\* elements of the card
Cards == [n : 1..2, e : CardEntries, rel : {<<"45", "0", "0">>, <<"0", "0", "300">>}]

CardPages == UNION {[1..k -> Cards] : k \in 0..MaxCards}

\* document.querySelectorAll('button[aria-label="Share this paper"]'): the
\* buttons of the cards top to bottom; the buttons of one card sit in one
\* row, the rows of two cards are 200 pixels apart
RECURSIVE AllShareButtons(_)
AllShareButtons(cards) ==
    IF cards = <<>> THEN <<>>
    ELSE LET c == Len(cards)
         IN  AllShareButtons(SubSeq(cards, 1, c - 1))
                \o [i \in 1..cards[c].n |-> [card |-> c, y |-> 200 * c]]

\* document.querySelector of the citation control: the control of the first
\* open share dialog that has one; the card it belongs to, 0 when none
BibtexControl(open, cards) ==
    LET shown == SelectSeq(open, LAMBDA d : d.kind = "share" /\ cards[d.card].e.ctl)
    IN  IF shown = <<>> THEN 0 ELSE shown[1].card

\* scraper.py:189-196: the first textarea holding a citation text; the card
\* whose citation it is, 0 when none
CitationShown(open, cards) ==
    LET shown == SelectSeq(open, LAMBDA d :
                    /\ d.kind = "bibtex"
                    /\ cards[d.card].e.bib.kind \in {"@inproceedings", "@article"})
    IN  IF shown = <<>> THEN 0 ELSE shown[1].card

\* backdrop.click() when a backdrop is found: the topmost dialog closes
\* ("First click closes Bibtex dialog, second click closes Share dialog")
ClickBackdrop(open) == IF open = <<>> THEN open ELSE SubSeq(open, 1, Len(open) - 1)

\* scraper.py:177-181
CloseOne(open) == ClickBackdrop(open)

\* mutant: the loop runs once
Mut_close_once(open) == ClickBackdrop(open)

\* scraper.py:285-291 (201-207, 318-324): for (let i = 0; i < 2; i++)
CloseBoth(open) == ClickBackdrop(ClickBackdrop(open))

\* what a pass of the loop leaves: the records pushed, the dialogs open,
\* the card whose citation text was read (0 when none was)
PassResult(push, open, read) == [push |-> push, open |-> open, read |-> read]

\* scraper.py:163-327: one pass of the loop, for the share button btn of
\* card c
ExportPass(open, cards, c, btn) ==
    LET e == cards[c].e
        o1 == Append(open, [kind |-> "share", card |-> c])
        ctl == BibtexControl(o1, cards)
        o2 == Append(o1, [kind |-> "bibtex", card |-> ctl])
        shown == CitationShown(o2, cards)
    IN  IF e.throwAt = "share" THEN PassResult(<<>>, CloseBoth(open), 0)
        ELSE IF e.throwAt = "after_share" THEN PassResult(<<>>, CloseBoth(o1), 0)
        ELSE IF ctl = 0 THEN PassResult(<<>>, CloseOne(o1), 0)
        ELSE IF e.throwAt = "after_bibtex" THEN PassResult(<<>>, CloseBoth(o2), 0)
        ELSE IF shown = 0 THEN PassResult(<<>>, CloseBoth(o2), 0)
        ELSE LET bib == cards[shown].e.bib
                 parsed == Parse(bib)
                 record == RawRecord(parsed, Entry(e.ctl, bib, FALSE, e.link), btn)
             IN  PassResult(IF Complete(parsed) THEN <<record>> ELSE <<>>,
                            CloseBoth(o2), shown)

\* the ancestors of a share button of the card: the card holds its elements
CardChain(card) == [d |-> 1, inner |-> card.rel, outer |-> <<>>]

\* scraper.py:335-418: the forEach body for the paper at paperIndex (counted
\* from 1 here); anchor is the position of the button the walk starts at
RelevanceFor(paper_data, paperIndex, cards) ==
    LET buttonsNow == AllShareButtons(cards)
    IN  IF paperIndex > Len(buttonsNow)
        THEN Put(paper_data, "anchor", 0)
        ELSE LET located == Locate(CardChain(cards[buttonsNow[paperIndex].card]))
             IN  Put(WithRelevance(paper_data, located), "anchor", paperIndex)

\* page.evaluate starts the script on a page
OpenPage ==
    /\ pgPc = "idle"
    /\ \E cards \in CardPages : pgCards' = cards
    /\ pgPc' = "export"
    /\ UNCHANGED <<pgi, pgOpen, pgPapers, pgLog, pri>>
    /\ UNCHANGED <<scrapeVars, relVars, figVars, runVars, postVars>>

\* scraper.py:163-327: the loop handles its next share button
ExportPassStep ==
    /\ pgPc = "export"
    /\ pgi <= Len(shareButtons(AllShareButtons(pgCards)))
    /\ LET btn == shareButtons(AllShareButtons(pgCards))[pgi]
           c == AllShareButtons(pgCards)[btn].card
           r == ExportPass(pgOpen, pgCards, c, btn)
       IN  /\ pgPapers' = pgPapers \o r.push
           /\ pgOpen' = r.open
           /\ pgLog' = Append(pgLog, [card |-> c, before |-> pgOpen, read |-> r.read,
                                      after |-> r.open, pushed |-> Len(r.push)])
    /\ pgi' = pgi + 1
    /\ UNCHANGED <<pgPc, pgCards, pri>>
    /\ UNCHANGED <<scrapeVars, relVars, figVars, runVars, postVars>>

\* scraper.py:329-332: the loop is over
EndExport ==
    /\ pgPc = "export"
    /\ pgi > Len(shareButtons(AllShareButtons(pgCards)))
    /\ pgPc' = "relevance"
    /\ pri' = 1
    /\ UNCHANGED <<pgCards, pgi, pgOpen, pgPapers, pgLog>>
    /\ UNCHANGED <<scrapeVars, relVars, figVars, runVars, postVars>>

\* scraper.py:335-418: the forEach handles its next paper
RelevanceStep ==
    /\ pgPc = "relevance"
    /\ pri <= Len(pgPapers)
    /\ pgPapers' = [pgPapers EXCEPT ![pri] = RelevanceFor(pgPapers[pri], pri, pgCards)]
    /\ pri' = pri + 1
    /\ UNCHANGED <<pgPc, pgCards, pgi, pgOpen, pgLog>>
    /\ UNCHANGED <<scrapeVars, relVars, figVars, runVars, postVars>>

\* scraper.py:420: return validPapers
ReturnPapers ==
    /\ pgPc = "relevance"
    /\ pri > Len(pgPapers)
    /\ pgPc' = "done"
    /\ UNCHANGED <<pgCards, pgi, pgOpen, pgPapers, pgLog, pri>>
    /\ UNCHANGED <<scrapeVars, relVars, figVars, runVars, postVars>>

NextPage ==
    \/ OpenPage
    \/ ExportPassStep
    \/ EndExport
    \/ RelevanceStep
    \/ ReturnPapers

SpecPage == Init /\ [][NextPage]_vars

-----------------------------------------------------------------------------
(* Properties of the script *)

\* the card the share button a record was exported from belongs to
OwnCard(record) == AllShareButtons(pgCards)[record["btn"]].card

\* metadata.relevance of a record, EmptyDict when it is not set
RelevanceSet(record) == GetOr(record["metadata"], "relevance", EmptyDict)

\* what the walk from a button of the card yields
RelevanceOfCard(c) ==
    LET located == Locate(CardChain(pgCards[c]))
    IN  IF located.found THEN located.relevance ELSE EmptyDict

\* C27 as stated: the triple of every paper of the output is the one the
\* walk from that paper's own share button yields, also when cards hold
\* several share buttons or earlier papers were skipped.
C27_RelevanceFromOwnButton ==
    pgPc = "done" =>
        \A k \in 1..Len(pgPapers) :
            /\ AllShareButtons(pgCards)[pgPapers[k]["anchor"]].card = OwnCard(pgPapers[k])
            /\ RelevanceSet(pgPapers[k]) = RelevanceOfCard(OwnCard(pgPapers[k]))

\* the value of the field of that key in a citation text, None without it
FieldOf(bib, key) ==
    IF \E i \in 1..Len(bib.fields) : bib.fields[i][1] = key
    THEN bib.fields[CHOOSE i \in 1..Len(bib.fields) : bib.fields[i][1] = key][2]
    ELSE None

\* C29: a raw record is identifier-bearing exactly when the journal field
\* of its citation is 'arXiv' and a volume field is present; then arxivId
\* is the volume and paperUrl the abstract URL of that id; otherwise
\* arxivId is null, so arxivId is set exactly when isArxiv is true.
C29_ArxivIffJournalAndVolume ==
    \A k \in 1..Len(pgPapers) :
        LET record == pgPapers[k]
            journal == FieldOf(record["bibtex"], "journal")
            volume == FieldOf(record["bibtex"], "volume")
        IN  /\ record["isArxiv"] <=> (journal = "arXiv" /\ Truthy(volume))
            /\ record["isArxiv"] =>
                /\ record["arxivId"] = volume
                /\ record["paperUrl"] = "https://arxiv.org/abs/" \o volume
            /\ ~record["isArxiv"] => record["arxivId"] = None
            /\ Truthy(record["arxivId"]) <=> record["isArxiv"]

\* C29 witness: the page yields a record of the preprint server with its
\* id and a record whose citation names the server but has no volume
C29_Witness ==
    /\ pgPc = "done"
    /\ Len(pgPapers) = 2
    /\ pgPapers[1]["isArxiv"]
    /\ pgPapers[1]["arxivId"] = "1234.5678"
    /\ pgPapers[2]["journal"] = "arXiv"
    /\ ~pgPapers[2]["isArxiv"]
    /\ pgPapers[2]["arxivId"] = None

\* C30: when the share button of a paper is activated no dialog of an
\* earlier paper is open; every path through a pass closes the dialogs it
\* opened, and the citation text read in a pass is the paper's own.
C30_NoDialogLeftOpen ==
    /\ \A k \in 1..Len(pgLog) :
        /\ pgLog[k].before = <<>>
        /\ pgLog[k].after = <<>>
        /\ pgLog[k].read \in {0, pgLog[k].card}
    /\ pgOpen = <<>>

\* C30 witness: the first pass was left by an exception with both dialogs
\* open, the second pass read its own citation text and pushed a record
C30_Witness ==
    /\ Len(pgLog) = 2
    /\ pgCards[1].e.throwAt = "after_bibtex"
    /\ pgLog[2].before = <<>>
    /\ pgLog[2].read = 2
    /\ pgLog[2].pushed = 1

\* C30 witness: the citation control of the first paper was missing, the
\* citation text of the second
C30_WitnessMissing ==
    /\ Len(pgLog) = 2
    /\ ~pgCards[1].e.ctl
    /\ pgCards[2].e.bib = NoBib
    /\ pgLog[2].before = <<>>
    /\ pgOpen = <<>>

====
